---- MODULE Spec2Model ----
(***************************************************************************)
(* The ladder-maintenance control loop of orders_manager.ts and the        *)
(* gateway wrapper PredictOrders it drives.                                *)
(*                                                                         *)
(* Prices are counted in ticks of 0.001 (price 0.617 is 617), money in     *)
(* USD, the clock in units of 15 minutes.  An order reference (orderHash)  *)
(* is an opaque token <<market id, price, k>>.                             *)
(***************************************************************************)
EXTENDS Integers, Sequences, FiniteSets, TLC

\* ---------------------------------------------------------------- constants
VALUE_THRESHOLD == 500
MIN_DEPTH_CHECK_USD == 500
LADDER_SIZE == 5
DEPTH_SCAN == 6
CANCEL_LIMIT == 10
COOLDOWN_SPAN == 2
PRICE_ONE == 1000
SIDE_BUY == 0
SIDE_SELL == 1

\* ------------------------------------------------------------------- bounds
MaxNow == 3
MaxCancelCount == 16
MaxBids == 2
MaxGone == 1
MaxFailAt == 2
MaxFailPage == 2
MaxFaults == 1

Min(a, b) == IF a < b THEN a ELSE b
Max(a, b) == IF a > b THEN a ELSE b

Hashes(orders) == {orders[i].orderHash : i \in DOMAIN orders}
Prices(orders) == {orders[i].price : i \in DOMAIN orders}

\* tracked.orders.sort((a, b) => b.price - a.price): a stable descending sort
InsertDesc(s, o) ==
    LET k == Cardinality({i \in DOMAIN s : s[i].price >= o.price})
    IN  SubSeq(s, 1, k) \o <<o>> \o SubSeq(s, k + 1, Len(s))

RECURSIVE SortDesc(_)
SortDesc(s) ==
    IF s = <<>> THEN <<>>
    ELSE InsertDesc(SortDesc(SubSeq(s, 1, Len(s) - 1)), s[Len(s)])

\* the hash the order builder computes for a new order: a token no tracked
\* order of the market carries
FreshHash(id, price, used) ==
    <<id, price, CHOOSE k \in 0..Cardinality(used) :
                    /\ <<id, price, k>> \notin used
                    /\ \A j \in 0..(k - 1) : <<id, price, j>> \in used>>

\* ------------------------------------------------------- PredictOrders side
GroupOrder == <<"regular", "negRisk", "regularYieldBearing", "negRiskYieldBearing">>

GroupOf(od) ==
    IF od.isYieldBearing
    THEN (IF od.isNegRisk THEN "negRiskYieldBearing" ELSE "regularYieldBearing")
    ELSE (IF od.isNegRisk THEN "negRisk" ELSE "regular")

groupOrdersByType(orders) ==
    [g \in {GroupOrder[i] : i \in 1..4} |->
        SelectSeq(orders, LAMBDA od : GroupOf(od) = g)]

\* a batch cancel that reports success as soon as one group was cancelled
cancelOrdersOnAnySuccess(orders, res) ==
    LET grouped == groupOrdersByType(orders)
        called == {i \in 1..4 : grouped[GroupOrder[i]] # <<>>}
        okGroups == {GroupOrder[i] : i \in {j \in called : res[GroupOrder[j]] = "ok"}}
    IN  [ threw   |-> FALSE,
          success |-> IF orders = <<>> THEN TRUE ELSE okGroups # {},
          done    |-> {orders[i].hash : i \in {j \in DOMAIN orders : GroupOf(orders[j]) \in okGroups}} ]

\* cancelOrders(orders): res[g] is what builder.cancelOrders does for group g:
\* "ok", "fail" (success === false or a null result) or "throw".  The groups
\* are cancelled in the order of GroupOrder; only the regularYieldBearing call
\* is inside a try block.
cancelOrders(orders, res) ==
    LET grouped == groupOrdersByType(orders)
        Escapes(i) == /\ grouped[GroupOrder[i]] # <<>>
                      /\ res[GroupOrder[i]] = "throw"
                      /\ GroupOrder[i] # "regularYieldBearing"
        stop == IF \E i \in 1..4 : Escapes(i)
                THEN CHOOSE i \in 1..4 : Escapes(i) /\ \A j \in 1..(i - 1) : ~Escapes(j)
                ELSE 5
        called == {i \in 1..4 : i <= stop /\ grouped[GroupOrder[i]] # <<>>}
        okGroups == {GroupOrder[i] : i \in {j \in called : res[GroupOrder[j]] = "ok"}}
    IN  [ threw   |-> stop <= 4,
          success |-> IF orders = <<>> THEN TRUE
                      ELSE \A i \in called : res[GroupOrder[i]] = "ok",
          \* the orders the gateway cancelled (and removeOrdersFromStorage deleted)
          done    |-> {orders[i].hash : i \in {j \in DOMAIN orders : GroupOf(orders[j]) \in okGroups}} ]

\* a listing that answers a failed page fetch with a success carrying the
\* pages fetched so far
RECURSIVE getOpenOrdersRecursivelyPartial(_, _)
getOpenOrdersRecursivelyPartial(pages, accumulatedOrders) ==
    IF ~pages[1].ok
    THEN [success |-> TRUE, data |-> accumulatedOrders, hasData |-> TRUE]
    ELSE LET acc == accumulatedOrders \o pages[1].orders
         IN  IF Len(pages) > 1
             THEN getOpenOrdersRecursivelyPartial(Tail(pages), acc)
             ELSE [success |-> TRUE, data |-> acc, hasData |-> TRUE]

\* getOpenOrdersRecursively(): pages is the sequence of page fetches, each
\* [ok, orders]; a fetch that fails (an http error or success === false)
\* ends the recursion in the catch block.
RECURSIVE getOpenOrdersRecursively(_, _)
getOpenOrdersRecursively(pages, accumulatedOrders) ==
    IF ~pages[1].ok
    THEN [success |-> FALSE, data |-> accumulatedOrders,
          \* data is undefined when nothing was accumulated
          hasData |-> Len(accumulatedOrders) > 0]
    ELSE LET acc == accumulatedOrders \o pages[1].orders
         IN  IF Len(pages) > 1       \* response.data.cursor names a next page
             THEN getOpenOrdersRecursively(Tail(pages), acc)
             ELSE [success |-> TRUE, data |-> acc, hasData |-> TRUE]

\* ------------------------------------------------------ orders_manager side
\* a depth that leaves out the bids one tick above p
RECURSIVE DepthAboveNextTick(_, _)
DepthAboveNextTick(bids, p) ==
    IF bids = <<>> \/ bids[1].price <= p + 1 THEN 0
    ELSE bids[1].value + DepthAboveNextTick(Tail(bids), p)

\* bid.value summed over the leading bids priced above p (the loop breaks at
\* the first bid with price <= p)
RECURSIVE DepthAbove(_, _)
DepthAbove(bids, p) ==
    IF bids = <<>> \/ bids[1].price <= p THEN 0
    ELSE bids[1].value + DepthAbove(Tail(bids), p)

RECURSIVE CumulativeValue(_, _)
CumulativeValue(bids, i) ==
    IF i = 0 THEN 0 ELSE bids[i].value + CumulativeValue(bids, i - 1)

\* the depth scan of processMarket and openBottomOrders: the 0-based index of
\* the first of the leading 6 bids at which the running value exceeds
\* MIN_DEPTH_CHECK_USD, or -1
\* a depth scan that is content with a running sum equal to the threshold
StartIndexAtThreshold(bids) ==
    LET hits == {i \in 1..Min(Len(bids), DEPTH_SCAN) :
                    CumulativeValue(bids, i) >= MIN_DEPTH_CHECK_USD}
    IN  IF hits = {} THEN -1
        ELSE (CHOOSE i \in hits : \A j \in hits : i <= j) - 1

StartIndex(bids) ==
    LET hits == {i \in 1..Min(Len(bids), DEPTH_SCAN) :
                    CumulativeValue(bids, i) > MIN_DEPTH_CHECK_USD}
    IN  IF hits = {} THEN -1
        ELSE (CHOOSE i \in hits : \A j \in hits : i <= j) - 1

\* incrementCancelCount without the test cooldownUntil === 0: every counted
\* cancellation at or past the limit restarts the cooldown
incrementCancelCountRestarting(tracked, count, now) ==
    LET c == tracked.cancelCount + count
    IN  [tracked EXCEPT !.cancelCount = c,
                        !.cooldownUntil =
                            IF c >= CANCEL_LIMIT THEN now + COOLDOWN_SPAN ELSE @]

incrementCancelCount(tracked, count, now) ==
    LET c == tracked.cancelCount + count
    IN  [tracked EXCEPT !.cancelCount = c,
                        !.cooldownUntil =
                            IF c >= CANCEL_LIMIT /\ tracked.cooldownUntil = 0
                            THEN now + COOLDOWN_SPAN ELSE @]

NoCancel(tracked, ordersToCancel) ==
    [t |-> tracked, n |-> 0, threw |-> FALSE, asked |-> Hashes(ordersToCancel),
     sent |-> {}, done |-> {}]

\* step 3 of cancelTopOrders and cancelBottomOrders: result is what
\* ordersBot.cancelOrders(orderDataList) returned or threw
batchCancel(tracked, ordersToCancel, orderDataList, result, now) ==
    LET canceledHashes == {orderDataList[i].hash : i \in DOMAIN orderDataList}
        none == NoCancel(tracked, ordersToCancel)
    IN  IF orderDataList = <<>> THEN none
        ELSE IF result.threw
        THEN [none EXCEPT !.threw = TRUE, !.sent = canceledHashes, !.done = result.done]
        ELSE IF result.success
        THEN [none EXCEPT
                !.t = incrementCancelCount(
                        [tracked EXCEPT !.orders =
                            SelectSeq(@, LAMBDA o : o.orderHash \notin canceledHashes)],
                        Cardinality(canceledHashes), now),
                !.n = Cardinality(canceledHashes),
                !.sent = canceledHashes, !.done = result.done]
        ELSE [none EXCEPT !.sent = canceledHashes, !.done = result.done]

\* steps 2 and 3 of cancelTopOrders and cancelBottomOrders.  ans answers the
\* lookups and the gateway call for the batch: ans.nodetail are the positions
\* of ordersToCancel for which neither storage nor getOrderByHash yields the
\* signed order, ans.neg and ans.yb those whose details say isNegRisk and
\* isYieldBearing, ans.res the result of each group's cancellation.
cancelBatch(tracked, ordersToCancel, ans, now) ==
    LET details == [i \in DOMAIN ordersToCancel |->
                        [hash |-> ordersToCancel[i].orderHash,
                         found |-> i \notin ans.nodetail,
                         isNegRisk |-> i \in ans.neg,
                         isYieldBearing |-> i \in ans.yb]]
        orderDataList == SelectSeq(details, LAMBDA d : d.found)
    IN  batchCancel(tracked, ordersToCancel, orderDataList,
                    cancelOrders(orderDataList, ans.res), now)

\* cancelTopOrders that spares the last order of its pick
cancelTopOrdersOneFewer(tracked, count, ans, now) ==
    cancelBatch(tracked,
                SubSeq(tracked.orders, 1, Max(0, Min(count, Len(tracked.orders)) - 1)),
                ans, now)

cancelTopOrders(tracked, count, ans, now) ==
    LET n == IF Len(tracked.orders) > 0 THEN count ELSE 0
    IN  IF n > Len(tracked.orders)      \* tracked.orders[i] is undefined
        THEN [NoCancel(tracked, <<>>) EXCEPT !.threw = TRUE]
        ELSE cancelBatch(tracked, SubSeq(tracked.orders, 1, n), ans, now)

\* cancelBottomOrders that picks from the top of the ladder
cancelBottomOrdersFromTop(tracked, count, ans, now) ==
    cancelBatch(tracked,
                SubSeq(tracked.orders, 1, Max(0, Min(count, Len(tracked.orders)))),
                ans, now)

\* cancelBottomOrders that spares the lowest order
cancelBottomOrdersSparingLowest(tracked, count, ans, now) ==
    LET len == Len(tracked.orders)
        n == Max(0, Min(count, len) - 1)
    IN  cancelBatch(tracked, [i \in 1..n |-> tracked.orders[len - i]], ans, now)

cancelBottomOrders(tracked, count, ans, now) ==
    LET len == Len(tracked.orders)
        n == Max(0, Min(count, len))
    IN  cancelBatch(tracked, [i \in 1..n |-> tracked.orders[len + 1 - i]], ans, now)

\* the openOrder loop: one call per price; the call numbered base + i of the
\* pass fails when that number is in fail
\* the result of the openOrder loop after one more iteration
PushOrdersRest(placed, rest) ==
    [t |-> rest.t, placed |-> placed \o rest.placed]

RECURSIVE PushOrders(_, _, _, _)
PushOrders(tracked, prices, fail, base) ==
    IF prices = <<>> THEN [t |-> tracked, placed |-> <<>>]
    ELSE LET ok == (base + 1) \notin fail
             o == [price |-> prices[1],
                   orderHash |-> FreshHash(tracked.id, prices[1], Hashes(tracked.orders))]
             t1 == IF ok THEN [tracked EXCEPT !.orders = SortDesc(Append(@, o))]
                   ELSE tracked
         IN  PushOrdersRest(IF ok THEN <<o>> ELSE <<>>,
                            PushOrders(t1, Tail(prices), fail, base + 1))

\* openBottomOrders that starts at its reference price, not one tick below
openBottomOrdersAtReference(tracked, count, bids2, fail, base) ==
    LET empty == Len(tracked.orders) = 0
        startIndex == StartIndex(bids2)
        startPrice == IF empty THEN bids2[startIndex + 1].price
                      ELSE tracked.orders[Len(tracked.orders)].price
        n == Max(0, Min(count, startPrice))
        r == PushOrders(tracked, [i \in 1..n |-> startPrice - (i - 1)], fail, base)
    IN  IF empty /\ (bids2 = <<>> \/ startIndex = -1)
        THEN [t |-> tracked, placed |-> <<>>, tried |-> 0, fetched |-> 1]
        ELSE [t |-> r.t, placed |-> r.placed, tried |-> n,
              fetched |-> IF empty THEN 1 ELSE 0]

\* openBottomOrders that places one order more than it was asked for
openBottomOrdersOneMore(tracked, count, bids2, fail, base) ==
    LET empty == Len(tracked.orders) = 0
        startIndex == StartIndex(bids2)
        startPrice == IF empty THEN bids2[startIndex + 1].price - 1
                      ELSE tracked.orders[Len(tracked.orders)].price - 1
        n == Max(0, Min(count + 1, startPrice))
        r == PushOrders(tracked, [i \in 1..n |-> startPrice - (i - 1)], fail, base)
    IN  IF empty /\ (bids2 = <<>> \/ startIndex = -1)
        THEN [t |-> tracked, placed |-> <<>>, tried |-> 0, fetched |-> 1]
        ELSE [t |-> r.t, placed |-> r.placed, tried |-> n,
              fetched |-> IF empty THEN 1 ELSE 0]

\* openBottomOrders(tracked, count); bids2 is the order book it fetches when
\* the ladder is empty
openBottomOrders(tracked, count, bids2, fail, base) ==
    LET empty == Len(tracked.orders) = 0
        startIndex == StartIndex(bids2)
        startPrice == IF empty THEN bids2[startIndex + 1].price - 1
                      ELSE tracked.orders[Len(tracked.orders)].price - 1
        n == Max(0, Min(count, startPrice))
        r == PushOrders(tracked, [i \in 1..n |-> startPrice - (i - 1)], fail, base)
    IN  IF empty /\ (bids2 = <<>> \/ startIndex = -1)
        THEN [t |-> tracked, placed |-> <<>>, tried |-> 0, fetched |-> 1]
        ELSE [t |-> r.t, placed |-> r.placed, tried |-> n,
              fetched |-> IF empty THEN 1 ELSE 0]

\* the result of openTopOrders after one more iteration of its loop
openTopOrdersRest(placed, rest) ==
    [t |-> rest.t, placed |-> placed \o rest.placed, tried |-> 1 + rest.tried,
     fetched |-> 0]

RECURSIVE openTopOrders(_, _, _, _)
openTopOrders(tracked, count, fail, base) ==
    IF count <= 0 \/ tracked.orders = <<>> \/ tracked.orders[1].price + 1 >= PRICE_ONE
    THEN [t |-> tracked, placed |-> <<>>, tried |-> 0, fetched |-> 0]
    ELSE LET newPrice == tracked.orders[1].price + 1
             ok == (base + 1) \notin fail
             o == [price |-> newPrice,
                   orderHash |-> FreshHash(tracked.id, newPrice, Hashes(tracked.orders))]
             t1 == IF ok THEN [tracked EXCEPT !.orders = SortDesc(<<o>> \o @)]
                   ELSE tracked
         IN  openTopOrdersRest(IF ok THEN <<o>> ELSE <<>>,
                               openTopOrders(t1, count - 1, fail, base + 1))

Mark(placed, cool) ==
    [i \in DOMAIN placed |-> [price |-> placed[i].price, cool |-> cool]]

Pass(t, branch, placed, batches, fetched, tried) ==
    [t |-> t, branch |-> branch, placed |-> placed, batches |-> batches,
     fetched |-> fetched, tried |-> tried, mid |-> <<>>]

NoPlacement(tracked) ==
    [t |-> tracked, placed |-> <<>>, tried |-> 0, fetched |-> 0]

\* the end of a shift: c is what the cancellation did, o what the placement
\* did, done what the pass had done before the shift
Shifted(c, o, direction, done, base) ==
    Pass(o.t, IF c.threw THEN "threw" ELSE direction,
         done.placed \o Mark(o.placed, c.t.cooldownUntil > 0),
         Append(done.batches, c), done.fetched + o.fetched, base + o.tried)

\* a down-shift that opens its new orders whatever the cancellation did
MoveDownRegardless(c, a, done, base) ==
    Shifted(c, openBottomOrders(c.t, Cardinality(c.asked), a.bids2, a.fail, base),
            "down", done, base)

\* lines 440-443: open new orders at the bottom after cancelTopOrders
MoveDown(c, a, done, base) ==
    Shifted(c, IF ~c.threw /\ c.n > 0
               THEN openBottomOrders(c.t, c.n, a.bids2, a.fail, base)
               ELSE NoPlacement(c.t),
            "down", done, base)

\* lines 476-479: open new orders at the top after cancelBottomOrders
MoveUp(c, a, done, base) ==
    Shifted(c, IF ~c.threw /\ c.n > 0
               THEN openTopOrders(c.t, c.n, a.fail, base)
               ELSE NoPlacement(c.t),
            "up", done, base)

\* a down-shift count that is not raised to 1
OrdersToMoveDownUnraised(orders, bestBid) ==
    Min(Cardinality({i \in DOMAIN orders : orders[i].price >= bestBid.price}),
        Len(orders))

\* lines 422-433: the tracked orders priced at or above the best bid, counted
\* from the top of the ladder up to the first order below it, at least one
OrdersToMoveDown(orders, bestBid) ==
    Min(Max(1, Cardinality({i \in DOMAIN orders :
                    \A j \in 1..i : orders[j].price >= bestBid.price})),
        Len(orders))

\* an up-shift count that takes every step of the gap, whatever the depth
ValidMovesUnchecked(bids, highestOrder, ordersToMoveUp) == ordersToMoveUp

\* lines 448-468: the steps of one tick above the highest order, out of
\* ordersToMoveUp, that the depth above the step's price allows
ValidMoves(bids, highestOrder, ordersToMoveUp) ==
    Cardinality({i \in 1..ordersToMoveUp :
                    \A j \in 1..i :
                        DepthAbove(bids, highestOrder.price + j) >= VALUE_THRESHOLD})

\* lines 405-481 of checkAndRebalance: the directional rebalance of a
\* non-empty ladder against the snapshot bids.  done holds what the pass has
\* done so far (placed, batches, fetched) and base the openOrder calls made.
DirectionalRebalance(tracked, bids, a, now, done, base) ==
    LET bestBid == bids[1]
        highestOrder == tracked.orders[1]
        len == Len(tracked.orders)
        cumulativeValue == DepthAbove(bids, highestOrder.price)
        ordersToMoveDown == OrdersToMoveDown(tracked.orders, bestBid)
        priceGap == bestBid.price - highestOrder.price
        ordersToMoveUp == Min(priceGap, len)
        validMoves == ValidMoves(bids, highestOrder, ordersToMoveUp)
    IN  IF bestBid.price <= highestOrder.price \/ cumulativeValue < VALUE_THRESHOLD
        THEN MoveDown(cancelTopOrders(tracked, ordersToMoveDown, a.c2, now),
                      a, done, base)
        ELSE IF bestBid.price > highestOrder.price + 1
        THEN IF validMoves > 0
             THEN MoveUp(cancelBottomOrders(tracked, validMoves, a.c2, now),
                         a, done, base)
             ELSE Pass(tracked, "stay", done.placed, done.batches, done.fetched, base)
        ELSE Pass(tracked, "stay", done.placed, done.batches, done.fetched, base)

\* a cooldown reset that clears cooldownUntil and keeps cancelCount
CooldownExpiredKeepingCount(tracked) ==
    [tracked EXCEPT !.cooldownUntil = 0]

\* lines 373-376: the reset of an expired cooldown
CooldownExpired(tracked) ==
    [tracked EXCEPT !.cancelCount = 0, !.cooldownUntil = 0]

\* lines 405-481 after the refill: t1 is the market after the trim, b1 the
\* batches of the trim, refill what openBottomOrders did; mid is the ladder
\* that the directional rebalance starts from
AfterRefill(t1, b1, refill, a, now) ==
    IF Len(refill.t.orders) = 0
    THEN Pass(refill.t, "empty", Mark(refill.placed, t1.cooldownUntil > 0), b1,
              1 + refill.fetched, refill.tried)
    ELSE [DirectionalRebalance(refill.t, a.bids, a, now,
            [placed |-> Mark(refill.placed, t1.cooldownUntil > 0),
             batches |-> b1, fetched |-> 1 + refill.fetched],
            refill.tried)
          EXCEPT !.mid = refill.t.orders]

\* a pass that refills the ladder although the snapshot is empty
AfterTrimRefillingAnyway(trim, b1, a, now) ==
    IF trim.threw THEN Pass(trim.t, "threw", <<>>, b1, 0, 0)
    ELSE IF a.bids = <<>>
    THEN LET refill == IF Len(trim.t.orders) < LADDER_SIZE
                       THEN openBottomOrders(trim.t, LADDER_SIZE - Len(trim.t.orders),
                                             a.bids2, a.fail, 0)
                       ELSE NoPlacement(trim.t)
         IN  Pass(refill.t, "nobids", Mark(refill.placed, trim.t.cooldownUntil > 0),
                  b1, 1 + refill.fetched, refill.tried)
    ELSE AfterRefill(trim.t, b1,
            IF Len(trim.t.orders) < LADDER_SIZE
            THEN openBottomOrders(trim.t, LADDER_SIZE - Len(trim.t.orders),
                                  a.bids2, a.fail, 0)
            ELSE NoPlacement(trim.t),
            a, now)

\* lines 395-403 after the trim: trim is what cancelBottomOrders did, b1 the
\* batches of the trim
AfterTrim(trim, b1, a, now) ==
    IF trim.threw THEN Pass(trim.t, "threw", <<>>, b1, 0, 0)
    ELSE IF a.bids = <<>> THEN Pass(trim.t, "nobids", <<>>, b1, 1, 0)
    ELSE AfterRefill(trim.t, b1,
            IF Len(trim.t.orders) < LADDER_SIZE
            THEN openBottomOrders(trim.t, LADDER_SIZE - Len(trim.t.orders),
                                  a.bids2, a.fail, 0)
            ELSE NoPlacement(trim.t),
            a, now)

\* the trim batch and what follows it
TrimBatch(trim, a, now) == AfterTrim(trim, <<trim>>, a, now)

\* lines 388-393: enforce max 5 orders
Trim(t0, a, now) ==
    IF Len(t0.orders) > LADDER_SIZE
    THEN TrimBatch(cancelBottomOrders(t0, Len(t0.orders) - LADDER_SIZE, a.c1, now),
                   a, now)
    ELSE AfterTrim(NoCancel(t0, <<>>), <<>>, a, now)

\* lines 377-385: still in cooldown, c is what cancelBottomOrders did
CooldownPass(c) == Pass(c.t, "cooldown", <<>>, <<c>>, 0, 0)

\* checkAndRebalance(tracked) at clock reading now.  a holds the answers of
\* the collaborators: a.c1 to the cancellation of the cooldown or trim step,
\* a.bids the order book fetched in line 395, a.bids2 the order book fetched
\* by openBottomOrders, a.fail the openOrder calls that fail, a.c2 to the
\* cancellation of the directional step.
checkAndRebalance(tracked, a, now) ==
    LET inCooldown == tracked.cooldownUntil > 0
        expired == inCooldown /\ now >= tracked.cooldownUntil
    IN  IF inCooldown /\ ~expired
        THEN IF Len(tracked.orders) > 0
             THEN CooldownPass(cancelBottomOrders(tracked, Len(tracked.orders), a.c1, now))
             ELSE Pass(tracked, "cooldown", <<>>, <<>>, 0, 0)
        ELSE Trim(IF expired THEN CooldownExpired(tracked) ELSE tracked, a, now)

\* checkAndReopenFilledOrders, for one tracked market: status[i] is what
\* getOrderByHash answers for the i-th tracked order ("ERR" when the call
\* fails), fail the positions whose openOrder call fails.
RECURSIVE ReopenLoop(_, _, _, _, _)
ReopenLoop(tracked, i, status, fail, acc) ==
    IF i > Len(tracked.orders) THEN acc
    ELSE LET order == tracked.orders[i]
             gone == status[i] \notin {"OPEN", "ERR"}
             ok == gone /\ i \notin fail
             o == [price |-> order.price,
                   orderHash |-> FreshHash(tracked.id, order.price,
                        Hashes(tracked.orders) \cup Hashes(acc.ordersToAdd))]
         IN  ReopenLoop(tracked, i + 1, status, fail,
                [ordersToRemove |-> IF gone THEN acc.ordersToRemove \cup {order.orderHash}
                                    ELSE acc.ordersToRemove,
                 ordersToAdd |-> IF ok THEN Append(acc.ordersToAdd, o)
                                 ELSE acc.ordersToAdd,
                 asked |-> IF gone THEN Append(acc.asked, [price |-> order.price,
                                                           status |-> status[i],
                                                           cool |-> tracked.cooldownUntil > 0])
                           ELSE acc.asked])

\* a re-open step that keeps the orders it found no longer open
checkAndReopenFilledOrdersKeeping(tracked, status, fail) ==
    LET r == ReopenLoop(tracked, 1, status, fail,
                [ordersToRemove |-> {}, ordersToAdd |-> <<>>, asked |-> <<>>])
    IN  [t |-> IF r.ordersToRemove # {}
               THEN [tracked EXCEPT !.orders = SortDesc(@ \o r.ordersToAdd)]
               ELSE tracked,
         asked |-> r.asked, added |-> r.ordersToAdd]

checkAndReopenFilledOrders(tracked, status, fail) ==
    LET r == ReopenLoop(tracked, 1, status, fail,
                [ordersToRemove |-> {}, ordersToAdd |-> <<>>, asked |-> <<>>])
    IN  [t |-> IF r.ordersToRemove # {}
               THEN [tracked EXCEPT !.orders =
                        SortDesc(SelectSeq(@, LAMBDA o : o.orderHash \notin r.ordersToRemove)
                                 \o r.ordersToAdd)]
               ELSE tracked,
         asked |-> r.asked, added |-> r.ordersToAdd]

\* an order of the listing that carries no hash
NoHash == <<0, 0, 0>>

\* parseFloat((x / y).toFixed(3)) in ticks
Ratio(x, y) == (2 * PRICE_ONE * x + y) \div (2 * y)

\* lines 242-268: the price of an untracked open order
PriceFromAmounts(apiOrder) ==
    IF apiOrder.makerAmount # 0 /\ apiOrder.takerAmount # 0
    THEN IF apiOrder.side = SIDE_BUY
         THEN Ratio(apiOrder.makerAmount, apiOrder.takerAmount)
         ELSE Ratio(apiOrder.takerAmount, apiOrder.makerAmount)
    ELSE 0

\* SyncMarket that counts the tracked orders it removes as cancellations
SyncMarketCountingStale(tracked, allOpenOrders) ==
    LET marketApiOrders == SelectSeq(allOpenOrders,
                                LAMBDA o : o.marketId # 0 /\ o.marketId = tracked.id)
        currentHashes == Hashes(tracked.orders)
        withHash == SelectSeq(marketApiOrders, LAMBDA o : o.hash # NoHash)
        apiHashes == {withHash[i].hash : i \in DOMAIN withHash}
        untracked == SelectSeq(withHash, LAMBDA o : o.hash \notin currentHashes)
        added == [i \in DOMAIN untracked |->
                    [price |-> PriceFromAmounts(untracked[i]),
                     orderHash |-> untracked[i].hash]]
    IN  [tracked EXCEPT !.orders =
            SortDesc(SelectSeq(@ \o added, LAMBDA o : o.orderHash \in apiHashes)),
                        !.cancelCount = @ + Cardinality(currentHashes \ apiHashes)]

\* SyncMarket without step 2: no tracked order is removed
SyncMarketKeepingStale(tracked, allOpenOrders) ==
    LET marketApiOrders == SelectSeq(allOpenOrders,
                                LAMBDA o : o.marketId # 0 /\ o.marketId = tracked.id)
        currentHashes == Hashes(tracked.orders)
        withHash == SelectSeq(marketApiOrders, LAMBDA o : o.hash # NoHash)
        untracked == SelectSeq(withHash, LAMBDA o : o.hash \notin currentHashes)
        added == [i \in DOMAIN untracked |->
                    [price |-> PriceFromAmounts(untracked[i]),
                     orderHash |-> untracked[i].hash]]
    IN  [tracked EXCEPT !.orders = SortDesc(@ \o added)]

\* lines 222-295: the synchronisation of one tracked market with the listing
SyncMarket(tracked, allOpenOrders) ==
    LET marketApiOrders == SelectSeq(allOpenOrders,
                                LAMBDA o : o.marketId # 0 /\ o.marketId = tracked.id)
        currentHashes == Hashes(tracked.orders)
        withHash == SelectSeq(marketApiOrders, LAMBDA o : o.hash # NoHash)
        apiHashes == {withHash[i].hash : i \in DOMAIN withHash}
        untracked == SelectSeq(withHash, LAMBDA o : o.hash \notin currentHashes)
        added == [i \in DOMAIN untracked |->
                    [price |-> PriceFromAmounts(untracked[i]),
                     orderHash |-> untracked[i].hash]]
    IN  [tracked EXCEPT !.orders =
            SortDesc(SelectSeq(@ \o added, LAMBDA o : o.orderHash \in apiHashes))]

\* SYNC OPEN ORDERS that trusts whatever data the listing call returned
SyncOpenOrdersOnAnyData(markets, allOrdersRes) ==
    IF allOrdersRes.hasData
    THEN [i \in DOMAIN markets |-> SyncMarket(markets[i], allOrdersRes.data)]
    ELSE markets

\* lines 207-299: SYNC OPEN ORDERS
SyncOpenOrders(markets, allOrdersRes) ==
    IF allOrdersRes.success /\ allOrdersRes.hasData
    THEN [i \in DOMAIN markets |-> SyncMarket(markets[i], allOrdersRes.data)]
    ELSE markets

\* target prices that always number LADDER_SIZE, however deep the depth scan
\* had to go
TargetPricesAlwaysFive(bids) ==
    LET startPrice == bids[StartIndex(bids) + 1].price - 1
    IN  [i \in 1..Max(0, Min(LADDER_SIZE, startPrice)) |-> startPrice - (i - 1)]

\* lines 98-106 of processMarket: the target prices for a snapshot whose depth
\* scan found a start index
TargetPrices(bids) ==
    LET startIndex == StartIndex(bids)
        startPrice == bids[startIndex + 1].price - 1
        targetOrderCount == Min(LADDER_SIZE, DEPTH_SCAN - startIndex)
        n == Max(0, Min(targetOrderCount, startPrice))
    IN  [i \in 1..n |-> startPrice - (i - 1)]

\* processMarket(market): existingOrders is what getExistingOrdersForMarket
\* returns, bids the order book, fail the openOrder calls that fail (or throw);
\* the result is <<>> for null and <<tracked>> for a tracked market
processMarket(id, existingOrders, bids, fail) ==
    LET startIndex == StartIndex(bids)
        asIs == [id |-> id, orders |-> SortDesc(existingOrders),
                 cancelCount |-> 0, cooldownUntil |-> 0]
        targetPrices == TargetPrices(bids)
        pricesToPlace == SelectSeq(targetPrices, LAMBDA q : q \notin Prices(existingOrders))
        r == PushOrders([asIs EXCEPT !.orders = existingOrders], pricesToPlace, fail, 0)
    IN  IF bids = <<>> THEN <<>>
        ELSE IF startIndex = -1
        THEN (IF Len(existingOrders) > 0 THEN <<asIs>> ELSE <<>>)
        ELSE IF pricesToPlace = <<>> THEN <<asIs>>
        ELSE IF Len(r.t.orders) > 0
        THEN <<[asIs EXCEPT !.orders = SortDesc(r.t.orders)]>>
        ELSE <<>>

\* --------------------------------------------------- what the gateway says
Order(id, price, k) == [price |-> price, orderHash |-> <<id, price, k>>]

\* open orders of the account that the core did not place
UsualOrders ==
    { [marketId |-> 1, hash |-> <<1, 4, 9>>, side |-> SIDE_BUY,
       makerAmount |-> 4, takerAmount |-> PRICE_ONE],
      [marketId |-> 2, hash |-> <<2, 4, 9>>, side |-> SIDE_BUY,
       makerAmount |-> 4, takerAmount |-> PRICE_ONE],
      [marketId |-> 1, hash |-> <<1, 9, 9>>, side |-> SIDE_SELL,
       makerAmount |-> PRICE_ONE, takerAmount |-> 9] }

\* open orders of market 3 in odd shapes: an entry without maker amount, one
\* whose side is neither buy nor sell, and a buy whose amounts give a price
\* above 1
OddOrders ==
    { [marketId |-> 3, hash |-> <<3, 0, 9>>, side |-> SIDE_BUY,
       makerAmount |-> 0, takerAmount |-> PRICE_ONE],
      [marketId |-> 3, hash |-> <<3, 5, 9>>, side |-> SIDE_SELL + 1,
       makerAmount |-> PRICE_ONE, takerAmount |-> 5],
      [marketId |-> 3, hash |-> <<3, 1200, 9>>, side |-> SIDE_BUY,
       makerAmount |-> 1200, takerAmount |-> PRICE_ONE] }

\* the listing entry of a tracked order
Entry(id, o) ==
    [marketId |-> id, hash |-> o.orderHash, side |-> SIDE_BUY,
     makerAmount |-> o.price, takerAmount |-> PRICE_ONE]

RECURSIVE SetToSeq(_)
SetToSeq(S) ==
    IF S = {} THEN <<>>
    ELSE LET x == CHOOSE y \in S : TRUE IN <<x>> \o SetToSeq(S \ {x})

RECURSIVE Flatten(_)
Flatten(ss) == IF ss = <<>> THEN <<>> ELSE ss[1] \o Flatten(Tail(ss))

\* a listing: the tracked orders but those in gone, then the orders of extras
Listing(markets, gone, extras) ==
    Flatten([i \in DOMAIN markets |->
        LET kept == SelectSeq(markets[i].orders, LAMBDA o : o.orderHash \notin gone)
        IN  [j \in DOMAIN kept |-> Entry(markets[i].id, kept[j])]])
    \o SetToSeq(extras)

\* a listing cut into pages of PageSize orders
RECURSIVE Paged(_)
PageSize == 4
Paged(listing) ==
    IF Len(listing) <= PageSize THEN <<[ok |-> TRUE, orders |-> listing]>>
    ELSE <<[ok |-> TRUE, orders |-> SubSeq(listing, 1, PageSize)]>>
         \o Paged(SubSeq(listing, PageSize + 1, Len(listing)))

AllHashes(markets) == UNION {Hashes(markets[i].orders) : i \in DOMAIN markets}

BidPrices == {6, 8, 12}
BidValues == {250, 600}

BookSet ==
    UNION {{b \in [1..n -> [price : BidPrices, value : BidValues]] :
                \A i \in 1..(n - 1) : b[i].price > b[i + 1].price} : n \in 0..MaxBids}

\* the order books of a run over n markets: with several markets every book
\* is one bid of sufficient depth at one of the two lower prices
CalmBooks ==
    {b \in BookSet : /\ Len(b) = 1
                     /\ b[1].value >= VALUE_THRESHOLD
                     /\ \E p \in BidPrices : b[1].price < p}

Books(n) == IF n > 1 THEN CalmBooks ELSE BookSet

Groups == {GroupOrder[i] : i \in 1..4}
OkRes == [g \in Groups |-> "ok"]
AllOk == [nodetail |-> {}, neg |-> {}, yb |-> {}, res |-> OkRes]

\* the answers to one cancellation batch
CancelAnswers ==
    { AllOk,
      [AllOk EXCEPT !.res = [OkRes EXCEPT !["regular"] = "fail"]],
      [AllOk EXCEPT !.res = [OkRes EXCEPT !["regular"] = "throw"]],
      [AllOk EXCEPT !.nodetail = {1}],
      [AllOk EXCEPT !.neg = {1}, !.res = [OkRes EXCEPT !["regular"] = "fail"]],
      [AllOk EXCEPT !.neg = {1}, !.res = [OkRes EXCEPT !["negRisk"] = "fail"]],
      [AllOk EXCEPT !.yb = {1}, !.res = [OkRes EXCEPT !["regularYieldBearing"] = "throw"]] }

\* the answers to the calls of one rebalance pass after its first
\* cancellation: at most one of them is not the plain success
Plain == [c2 |-> AllOk, fail |-> {}, refetch |-> TRUE]

\* plain is the pass with every such call answered by the plain success; the
\* answers to calls that the pass does not make are not told apart
Scenarios(plain) ==
    {Plain}
    \cup (IF plain.branch \in {"down", "up"}
          THEN {[Plain EXCEPT !.c2 = c] : c \in CancelAnswers} ELSE {})
    \cup {[Plain EXCEPT !.fail = {i}] : i \in 1..Min(plain.tried, MaxFailAt)}
    \cup (IF plain.tried > 0 THEN {[Plain EXCEPT !.fail = 1..(2 * LADDER_SIZE)]} ELSE {})
    \cup (IF plain.fetched > 1 THEN {[Plain EXCEPT !.refetch = FALSE]} ELSE {})

\* ------------------------------------------------------------------- state
VARIABLES allMarkets, trackedMarkets, pc, cursor, positionSold, now, faults, log

vars == <<allMarkets, trackedMarkets, pc, cursor, positionSold, now, faults, log>>

\* the open orders that the account may hold outside the core: those of
\* market 3 when that market is in the markets file
ExternalOrders ==
    IF \E e \in OddOrders : \E i \in DOMAIN allMarkets : allMarkets[i] = e.marketId
    THEN OddOrders ELSE UsualOrders

\* the external orders that are tracked
Listed(markets) ==
    {e \in ExternalOrders : \E i \in DOMAIN markets : e.hash \in Hashes(markets[i].orders)}

\* faults counts the answers of the collaborators that were not the plain
\* success, and the orders that came or went outside the core; a run has at
\* most MaxFaults of them
Spend(n) == faults + n <= MaxFaults /\ faults' = faults + n
Cost(b) == IF b THEN 1 ELSE 0

MaxTracked == 7

Init ==
    /\ allMarkets = <<1>>
    /\ trackedMarkets = <<>>
    /\ pc = "main"
    /\ cursor = 0
    /\ positionSold = FALSE
    /\ now = 1
    /\ faults = 0
    /\ log = [op |-> "init"]

ExistingChoices(id) ==
    {<<>>, <<Order(id, 4, 0)>>, <<Order(id, 3, 0), Order(id, 6, 0)>>}

\* main(): processMarket for every market of the file, then the monitor loop
Main ==
    /\ pc = "main"
    /\ \E existing \in [DOMAIN allMarkets -> UNION {ExistingChoices(allMarkets[i]) : i \in DOMAIN allMarkets}],
          bids \in [DOMAIN allMarkets -> Books(Len(allMarkets))],
          fail \in {{}, {1}, 1..LADDER_SIZE} :
            LET results == [i \in DOMAIN allMarkets |->
                                processMarket(allMarkets[i], existing[i], bids[i], fail)]
                kept == Flatten(results)
            IN  /\ \A i \in DOMAIN allMarkets : existing[i] \in ExistingChoices(allMarkets[i])
                /\ trackedMarkets' = kept
                /\ pc' = IF Len(kept) > 0 THEN "sell" ELSE "done"
                /\ Spend(Cost(fail # {}))
                /\ log' = [op |-> "main", bids |-> bids, existing |-> existing]
    /\ UNCHANGED <<allMarkets, cursor, positionSold, now>>

\* sellAllPositions() followed at once by the rebalance passes
SellPositionsThenRebalance ==
    /\ pc = "sell"
    /\ \E sold \in BOOLEAN :
          /\ positionSold' = sold
          /\ IF sold THEN pc' = "reopen" /\ cursor' = cursor
                     ELSE pc' = "rebalance" /\ cursor' = 1
          /\ log' = [op |-> "sell"]
    /\ UNCHANGED <<allMarkets, trackedMarkets, now, faults>>

\* sellAllPositions(): a call that throws leaves positionSold false
SellPositions ==
    /\ pc = "sell"
    /\ \E sold \in BOOLEAN :
          /\ positionSold' = sold
          /\ pc' = IF sold THEN "reopen" ELSE "sync"
          /\ log' = [op |-> "sell"]
    /\ UNCHANGED <<allMarkets, trackedMarkets, cursor, now, faults>>

\* what getOrderByHash says of the n tracked orders of a market
StatusAnswers(n) ==
    {[i \in 1..n |-> IF i \in G THEN s ELSE "OPEN"] :
        G \in {H \in SUBSET (1..n) : Cardinality(H) <= MaxGone},
        s \in {"FILLED", "CANCELLED", "ERR"}}

Reopen ==
    /\ pc = "reopen"
    /\ \E st \in [DOMAIN trackedMarkets ->
                        UNION {StatusAnswers(Len(trackedMarkets[i].orders)) :
                                    i \in DOMAIN trackedMarkets}],
          failing \in BOOLEAN :
            LET r == [i \in DOMAIN trackedMarkets |->
                        checkAndReopenFilledOrders(trackedMarkets[i], st[i],
                            IF failing THEN 1..MaxTracked ELSE {})]
                events == Cardinality({i \in DOMAIN trackedMarkets :
                                        \E j \in DOMAIN st[i] : st[i][j] # "OPEN"})
            IN  /\ \A i \in DOMAIN trackedMarkets :
                        DOMAIN st[i] = DOMAIN trackedMarkets[i].orders
                /\ failing => events > 0
                /\ Spend(events + Cost(failing))
                /\ trackedMarkets' = [i \in DOMAIN trackedMarkets |-> r[i].t]
                /\ log' = [op |-> "reopen",
                           added |-> [i \in DOMAIN trackedMarkets |-> Len(r[i].added)]]
    /\ pc' = "sync"
    /\ UNCHANGED <<allMarkets, cursor, positionSold, now>>

ListedFor(id, listing) ==
    {listing[i].hash : i \in {j \in DOMAIN listing : listing[j].marketId = id}}

\* the end of the reconciliation: synced is what SyncOpenOrders made of the
\* tracked markets
Reconciled(listing, failAt, synced) ==
    /\ \A i \in DOMAIN synced : Len(synced[i].orders) <= MaxTracked
    /\ trackedMarkets' = synced
    /\ log' = [op |-> "sync", failAt |-> failAt,
               before |-> [i \in DOMAIN trackedMarkets |->
                            Hashes(trackedMarkets[i].orders)],
               listed |-> [i \in DOMAIN trackedMarkets |->
                            ListedFor(trackedMarkets[i].id, listing)]]

\* the listing is fetched page by page; the fetch numbered failAt fails
Reconcile(listing, pages, failAt) ==
    /\ failAt <= Len(pages)
    /\ Reconciled(listing, failAt,
            SyncOpenOrders(trackedMarkets,
                getOpenOrdersRecursively(
                    IF failAt = 0 THEN pages
                    ELSE SubSeq(pages, 1, failAt - 1) \o <<[ok |-> FALSE]>>,
                    <<>>)))

ListAndReconcile(listing, failAt) == Reconcile(listing, Paged(listing), failAt)

Sync ==
    /\ pc = "sync"
    /\ \E gone \in {G \in SUBSET AllHashes(trackedMarkets) : Cardinality(G) <= MaxGone}
                    \cup {AllHashes(trackedMarkets)},
          extras \in SUBSET ExternalOrders,
          dup \in BOOLEAN,
          failAt \in 0..MaxFailPage :
        /\ dup => extras # {}
        /\ failAt > 0 => gone = {} /\ ~dup
        /\ Spend(Cost(gone # {}) + Cardinality(extras \ Listed(trackedMarkets))
                 + Cost(dup) + Cost(failAt > 0))
        /\ ListAndReconcile(Listing(trackedMarkets, gone, extras)
                            \o (IF dup THEN SetToSeq(extras) ELSE <<>>), failAt)
    /\ pc' = "rebalance"
    /\ cursor' = 1
    /\ UNCHANGED <<allMarkets, positionSold, now>>

\* what the log keeps of a cancellation batch: the orders picked, those sent
\* to the gateway, those the gateway cancelled, and the count added to
\* cancelCount
Batch(c) == [asked |-> c.asked, sent |-> c.sent, done |-> c.done, n |-> c.n]

Answers(c1, bids, sc) ==
    [c1 |-> c1, c2 |-> sc.c2, fail |-> sc.fail, bids |-> bids,
     bids2 |-> IF sc.refetch THEN bids ELSE <<>>]

NeedsFirstCancel(tracked, time) ==
    \/ tracked.cooldownUntil > 0 /\ time < tracked.cooldownUntil /\ Len(tracked.orders) > 0
    \/ Len(tracked.orders) > LADDER_SIZE

\* the end of a pass: r is what checkAndRebalance did with the order book
\* bids; plain says that every call of the pass was answered by the plain
\* success
Rebalanced(r, bids, plain) ==
    /\ r.t.cancelCount <= MaxCancelCount
    /\ trackedMarkets' = [trackedMarkets EXCEPT ![cursor] = r.t]
    /\ log' = [op |-> "rebalance", m |-> cursor, branch |-> r.branch,
               pre |-> [cancelCount |-> trackedMarkets[cursor].cancelCount,
                        cooldownUntil |-> trackedMarkets[cursor].cooldownUntil,
                        len |-> Len(trackedMarkets[cursor].orders)],
               placed |-> Len(r.placed),
               placedInCooldown |-> \E i \in DOMAIN r.placed : r.placed[i].cool,
               batches |-> [i \in DOMAIN r.batches |-> Batch(r.batches[i])],
               fetched |-> r.fetched, bids |-> bids, plain |-> plain,
               mid |-> r.mid]

\* the passes of a loop in which a pass that met a failure is not caught and
\* ends the monitor loop
RebalanceUncaught ==
    /\ pc = "rebalance"
    /\ \E bids \in Books(Len(allMarkets)),
          c1 \in IF NeedsFirstCancel(trackedMarkets[cursor], now)
                 THEN CancelAnswers ELSE {AllOk} :
        \E sc \in IF faults + Cost(c1 # AllOk) < MaxFaults
                   THEN Scenarios(checkAndRebalance(trackedMarkets[cursor],
                                    Answers(c1, bids, Plain), now))
                   ELSE {Plain} :
            /\ Spend(Cost(c1 # AllOk) + Cost(sc # Plain))
            /\ Rebalanced(checkAndRebalance(trackedMarkets[cursor],
                                            Answers(c1, bids, sc), now),
                          bids, c1 = AllOk /\ sc = Plain)
            /\ IF c1 # AllOk \/ sc # Plain
               THEN cursor' = 0 /\ pc' = "done"
               ELSE IF cursor < Len(trackedMarkets)
                    THEN cursor' = cursor + 1 /\ pc' = pc
                    ELSE cursor' = 0 /\ pc' = "sleep"
    /\ UNCHANGED <<allMarkets, positionSold, now>>

Rebalance ==
    /\ pc = "rebalance"
    /\ \E bids \in Books(Len(allMarkets)),
          c1 \in IF NeedsFirstCancel(trackedMarkets[cursor], now)
                 THEN CancelAnswers ELSE {AllOk} :
        \E sc \in IF faults + Cost(c1 # AllOk) < MaxFaults
                   THEN Scenarios(checkAndRebalance(trackedMarkets[cursor],
                                    Answers(c1, bids, Plain), now))
                   ELSE {Plain} :
            /\ Spend(Cost(c1 # AllOk) + Cost(sc # Plain))
            /\ Rebalanced(checkAndRebalance(trackedMarkets[cursor],
                                            Answers(c1, bids, sc), now),
                          bids, c1 = AllOk /\ sc = Plain)
    /\ IF cursor < Len(trackedMarkets)
       THEN cursor' = cursor + 1 /\ pc' = pc
       ELSE cursor' = 0 /\ pc' = "sleep"
    /\ UNCHANGED <<allMarkets, positionSold, now>>

\* the 30 second wait that ends an iteration of the monitor loop
Sleep ==
    /\ pc = "sleep"
    /\ \E d \in {0, 1} :
          /\ now + d <= MaxNow
          /\ now' = now + d
    /\ pc' = "sell"
    /\ positionSold' = FALSE
    /\ log' = [op |-> "sleep"]
    /\ UNCHANGED <<allMarkets, trackedMarkets, cursor, faults>>

Next == Main \/ SellPositions \/ Reopen \/ Sync \/ Rebalance \/ Sleep

Spec == Init /\ [][Next]_vars

\* a markets file of the one market whose listing entries come in odd shapes,
\* started at the last clock reading
InitOdd ==
    /\ allMarkets = <<3>>
    /\ trackedMarkets = <<>>
    /\ pc = "main"
    /\ cursor = 0
    /\ positionSold = FALSE
    /\ now = MaxNow
    /\ faults = 0
    /\ log = [op |-> "init"]

SpecOdd == InitOdd /\ [][Next]_vars

\* a markets file of two markets, started at the last clock reading
InitTwo ==
    /\ allMarkets = <<1, 2>>
    /\ trackedMarkets = <<>>
    /\ pc = "main"
    /\ cursor = 0
    /\ positionSold = FALSE
    /\ now = MaxNow
    /\ faults = 0
    /\ log = [op |-> "init"]

SpecTwo == InitTwo /\ [][Next]_vars

\* the program takes its next step: every awaited call returns or throws and
\* the 30 second timer fires, so the step that is due is eventually taken
\* unless main() has returned
Proceeds ==
    /\ pc # "done"
    /\ \E p \in {"sell", "reopen", "sync", "rebalance", "sleep", "done"},
          c \in 0..Len(allMarkets) :
            pc' = p /\ cursor' = c

\* the two markets under a scheduler that lets the program proceed
SpecTwoLive == InitTwo /\ [][Next]_vars /\ WF_<<pc, cursor>>(Proceeds)

\* the clock moves on during a wait of the loop
Advances ==
    /\ pc = "sleep"
    /\ now < MaxNow
    /\ now' = now + 1

\* one market under a scheduler that lets the program proceed, and a clock
\* that moves on
SpecLive ==
    /\ Init /\ [][Next]_vars
    /\ WF_<<pc, cursor>>(Proceeds)
    /\ SF_now(Advances)

\* the snapshots of the initializer: up to MaxDeepBids bids at consecutive
\* ticks down from a best bid
MaxDeepBids == 7
DeepTops == {3, 9}
DeepValues == {50, 100, 600}

DeepBooks ==
    UNION {{[i \in 1..n |-> [price |-> top - i + 1, value |-> v[i]]] :
                v \in [1..n -> DeepValues]} :
           n \in 0..MaxDeepBids, top \in DeepTops}

\* main() up to the snapshot of a markets file of one market that has no open
\* order: the snapshot is in log
InitDeep ==
    /\ allMarkets = <<1>>
    /\ trackedMarkets = <<>>
    /\ pc = "main"
    /\ cursor = 0
    /\ positionSold = FALSE
    /\ now = 1
    /\ faults = 0
    /\ log \in {[op |-> "book", bids |-> b] :
                    b \in {d \in DeepBooks : \A i \in DOMAIN d : d[i].price > 0}}

\* processMarket on that snapshot, every openOrder call succeeding
Place ==
    /\ pc = "main"
    /\ log.op = "book"
    /\ trackedMarkets' = processMarket(allMarkets[1], <<>>, log.bids, {})
    /\ log' = [op |-> "placed", bids |-> log.bids,
               targets |-> IF StartIndex(log.bids) >= 0
                           THEN TargetPrices(log.bids) ELSE <<>>]
    /\ pc' = "done"
    /\ UNCHANGED <<allMarkets, cursor, positionSold, now, faults>>

SpecDeep == InitDeep /\ [][Place]_vars

\* a market whose ladder is empty at the start of its rebalance pass, outside
\* cooldown; the snapshot that the pass will fetch is in log
InitRefill ==
    /\ allMarkets = <<1>>
    /\ trackedMarkets = <<[id |-> 1, orders |-> <<>>,
                           cancelCount |-> 0, cooldownUntil |-> 0]>>
    /\ pc = "rebalance"
    /\ cursor = 1
    /\ positionSold = FALSE
    /\ now = 1
    /\ faults = 0
    /\ log \in {[op |-> "book", bids |-> b] :
                    b \in {d \in DeepBooks : \A i \in DOMAIN d : d[i].price > 0}}

\* checkAndRebalance of that market over that snapshot, every call succeeding
RefillPass ==
    /\ pc = "rebalance"
    /\ log.op = "book"
    /\ Rebalanced(checkAndRebalance(trackedMarkets[cursor],
                                    Answers(AllOk, log.bids, Plain), now),
                  log.bids, TRUE)
    /\ pc' = "done"
    /\ UNCHANGED <<allMarkets, cursor, positionSold, now, faults>>

SpecRefill == InitRefill /\ [][RefillPass]_vars

\* ------------------------------------------------------------- OrderStorage
\* the storage file: a sequence of market entries, each with the records of
\* its orders; a record is told from another by its orderHash alone
MaxStored == 2

\* the order book of this market: one bid of sufficient depth at the lowest
\* of the bid prices
StoreBooks == {b \in CalmBooks : \A p \in BidPrices : b[1].price <= p}

FirstMarket(markets, marketId) ==
    CHOOSE k \in DOMAIN markets :
        /\ markets[k].market_id = marketId
        /\ \A j \in 1..(k - 1) : markets[j].market_id # marketId

\* OrderStorage.addOrder(orderData, marketId, marketTitle)
addOrder(markets, orderHash, marketId) ==
    IF \E k \in DOMAIN markets : markets[k].market_id = marketId
    THEN [markets EXCEPT ![FirstMarket(markets, marketId)].orders =
                Append(@, [orderHash |-> orderHash])]
    ELSE Append(markets, [market_id |-> marketId,
                          orders |-> <<[orderHash |-> orderHash]>>])

\* OrderStorage.deleteOrder(orderHash): the first market that holds the
\* reference loses every record of it, and the market entry goes with its
\* last record
deleteOrder(markets, orderHash) ==
    LET holds(k) == \E j \in DOMAIN markets[k].orders :
                        markets[k].orders[j].orderHash = orderHash
    IN  IF \A k \in DOMAIN markets : ~holds(k) THEN markets
        ELSE LET m == CHOOSE k \in DOMAIN markets :
                            holds(k) /\ \A j \in 1..(k - 1) : ~holds(j)
                 left == SelectSeq(markets[m].orders,
                                   LAMBDA o : o.orderHash # orderHash)
             IN  IF left = <<>>
                 THEN SubSeq(markets, 1, m - 1) \o SubSeq(markets, m + 1, Len(markets))
                 ELSE [markets EXCEPT ![m].orders = left]

RECURSIVE addOrders(_, _, _)
addOrders(markets, hashes, marketId) ==
    IF hashes = <<>> THEN markets
    ELSE addOrders(addOrder(markets, hashes[1], marketId), Tail(hashes), marketId)

RECURSIVE deleteOrders(_, _)
deleteOrders(markets, hashes) ==
    IF hashes = {} THEN markets
    ELSE LET h == CHOOSE x \in hashes : TRUE
         IN  deleteOrders(deleteOrder(markets, h), hashes \ {h})

\* the references of the records of the storage file, one for each record
StoredRecords(markets) ==
    Flatten([k \in DOMAIN markets |->
                [j \in DOMAIN markets[k].orders |-> markets[k].orders[j].orderHash]])

\* one tracked market without orders and an empty storage file
InitStore ==
    /\ allMarkets = <<1>>
    /\ trackedMarkets = <<[id |-> 1, orders |-> <<>>, cancelCount |-> 0,
                           cooldownUntil |-> 0]>>
    /\ pc = "store"
    /\ cursor = 0
    /\ positionSold = FALSE
    /\ now = 1
    /\ faults = 0
    /\ log = [op |-> "store", stored |-> <<>>]

\* the end of a step over the tracked market and the storage file
Stored(op, tracked, markets) ==
    /\ Len(StoredRecords(markets)) <= MaxStored
    /\ Len(tracked.orders) <= MaxStored
    /\ tracked.cancelCount <= MaxStored
    /\ trackedMarkets' = <<tracked>>
    /\ log' = [op |-> op, stored |-> markets]

\* openBottomOrders with every placement accepted: openOrder saves each new
\* order to storage before the core tracks it
StorePlace ==
    /\ pc = "store"
    /\ \E bids \in StoreBooks, count \in 1..2 :
          LET r == openBottomOrders(trackedMarkets[1], count, bids, {}, 0)
              hashes == [i \in DOMAIN r.placed |-> r.placed[i].orderHash]
          IN  /\ \A i \in DOMAIN hashes :
                    \A j \in DOMAIN StoredRecords(log.stored) :
                        StoredRecords(log.stored)[j] # hashes[i]
              /\ Stored("place", r.t, addOrders(log.stored, hashes, trackedMarkets[1].id))
    /\ UNCHANGED <<allMarkets, pc, cursor, positionSold, now, faults>>

\* cancelBottomOrders: cancelOrders deletes from storage the orders of every
\* group whose cancellation succeeded
StoreCancel ==
    /\ pc = "store"
    /\ \E count \in 1..2, ans \in CancelAnswers :
          LET c == cancelBottomOrders(trackedMarkets[1], count, ans, now)
          IN  /\ c.asked # {}
              /\ Stored("cancel", c.t, deleteOrders(log.stored, c.done))
    /\ UNCHANGED <<allMarkets, pc, cursor, positionSold, now, faults>>

\* SYNC OPEN ORDERS over a listing fetched in full: every untracked order of
\* the listing is saved to storage, and no tracked order that the listing
\* lacks is deleted from it
StoreSync ==
    /\ pc = "store"
    /\ \E gone \in {G \in SUBSET AllHashes(trackedMarkets) : Cardinality(G) <= MaxGone},
          extras \in SUBSET {e \in ExternalOrders : e.marketId = 1},
          dup \in BOOLEAN :
          LET listing == Listing(trackedMarkets, gone, extras)
                         \o (IF dup THEN SetToSeq(extras) ELSE <<>>)
              res == getOpenOrdersRecursively(Paged(listing), <<>>)
              untracked == SelectSeq(listing,
                              LAMBDA o : /\ o.marketId = trackedMarkets[1].id
                                         /\ o.hash # NoHash
                                         /\ o.hash \notin Hashes(trackedMarkets[1].orders))
          IN  /\ dup => extras # {}
              /\ Stored("sync", SyncOpenOrders(trackedMarkets, res)[1],
                        addOrders(log.stored,
                                  [i \in DOMAIN untracked |-> untracked[i].hash],
                                  trackedMarkets[1].id))
    /\ UNCHANGED <<allMarkets, pc, cursor, positionSold, now, faults>>

NextStore == StorePlace \/ StoreCancel \/ StoreSync

SpecStore == InitStore /\ [][NextStore]_vars

\* ------------------------------------------------------------- properties
\* the pass that checkAndRebalance runs for market i from this state returns
\* at the cooldown check
InCooldown(tracked, time) ==
    tracked.cooldownUntil > 0 /\ time < tracked.cooldownUntil

\* the pass of the last step began with the market in an unexpired cooldown
StartedInCooldown ==
    log.pre.cooldownUntil > 0 /\ now < log.pre.cooldownUntil

StrictlyDecreasing(orders) ==
    \A j \in 1..(Len(orders) - 1) : orders[j].price > orders[j + 1].price

\* C1: after a reconciliation pass whose listing of the open orders succeeded,
\* every tracked market tracks exactly the references the gateway listed for
\* its id: listed ones are kept or added, the others are removed.
C1_SyncTracksWhatIsListed ==
    (log.op = "sync" /\ log.failAt = 0) =>
        \A i \in DOMAIN trackedMarkets :
            Hashes(trackedMarkets[i].orders) = log.listed[i]

\* a successful reconciliation of a market that tracked orders, kept them and
\* added a listed order it did not track
C1_Witness ==
    /\ log.op = "sync"
    /\ log.failAt = 0
    /\ \E i \in DOMAIN trackedMarkets :
          /\ log.before[i] # {}
          /\ log.before[i] \subseteq Hashes(trackedMarkets[i].orders)
          /\ log.listed[i] \ log.before[i] # {}
          /\ Hashes(trackedMarkets[i].orders) # log.before[i]

\* C2: a reconciliation pass whose list-all-open-orders call fails, on the
\* first page or on a later one, changes no tracked market: orders,
\* cancelCount and cooldownUntil stay as they were.
C2_FailedListingChangesNothing ==
    [][(pc = "sync" /\ log'.failAt > 0) => trackedMarkets' = trackedMarkets]_vars

\* the listing failed on its second page, after a first page of a market that
\* tracks orders was read
C2_Witness ==
    /\ log.op = "sync"
    /\ log.failAt = 2
    /\ \E i \in DOMAIN trackedMarkets :
          /\ Len(trackedMarkets[i].orders) > PageSize
          /\ Hashes(trackedMarkets[i].orders) = log.before[i]

\* C3: while a market's cooldownUntil is set the core places no order for it:
\* no rebalance pass places an order once cooldownUntil is set (the pass that
\* sets it included), and the re-open step adds no order to a market whose
\* cooldownUntil is set.
C3_NoPlacementInCooldown ==
    /\ log.op = "rebalance" => ~log.placedInCooldown
    /\ log.op = "reopen" =>
          \A i \in DOMAIN trackedMarkets :
              trackedMarkets[i].cooldownUntil > 0 => log.added[i] = 0

TrimmedInFull ==
    log.pre.len > LADDER_SIZE =>
        /\ Len(log.batches) >= 1
        /\ log.batches[1].n = log.pre.len - LADDER_SIZE

C5_PricesStrictlyDecreasing ==
    log.op \in {"reopen", "sync", "rebalance"} =>
        \A i \in DOMAIN trackedMarkets : StrictlyDecreasing(trackedMarkets[i].orders)

\* the orders the gateway cancelled in the batches of a pass
RECURSIVE CancelledIn(_)
CancelledIn(batches) ==
    IF batches = <<>> THEN 0
    ELSE Cardinality(batches[1].done) + CancelledIn(Tail(batches))

\* the cancellations the batches of a pass added to cancelCount
RECURSIVE CountedIn(_)
CountedIn(batches) ==
    IF batches = <<>> THEN 0 ELSE batches[1].n + CountedIn(Tail(batches))

\* the step about to be taken is the rebalance pass of market i
PassOf(i) == pc = "rebalance" /\ cursor = i

\* the rebalance pass of market i about to be taken finds its cooldown expired
ExpiryOf(i) ==
    /\ PassOf(i)
    /\ trackedMarkets[i].cooldownUntil > 0
    /\ now >= trackedMarkets[i].cooldownUntil

\* C6: when some type sub-groups of a cancel batch succeed and others fail,
\* the orders of the succeeded sub-groups are no longer tracked after the pass
\* and the orders of the failed sub-groups still are.
C6_PartialBatchRemovesSucceeded ==
    log.op = "rebalance" =>
        \A k \in DOMAIN log.batches :
            LET b == log.batches[k]
                tracked == Hashes(trackedMarkets[log.m].orders)
            IN  (b.done # {} /\ b.done # b.sent) =>
                    /\ b.done \cap tracked = {}
                    /\ (b.sent \ b.done) \subseteq tracked

\* C7: cancelCount rises only in a rebalance pass of the market, and there by
\* exactly the number of orders the gateway cancelled in the batches of the
\* pass (counted from 0 when the pass finds the cooldown expired).
C7_CancelCountCountsCancelled ==
    [][\A i \in DOMAIN trackedMarkets :
          i \in DOMAIN trackedMarkets' =>
            IF PassOf(i)
            THEN trackedMarkets'[i].cancelCount =
                    (IF ExpiryOf(i) THEN 0 ELSE trackedMarkets[i].cancelCount)
                    + CancelledIn(log'.batches)
            ELSE trackedMarkets'[i].cancelCount <= trackedMarkets[i].cancelCount]_vars

\* C8: cooldownUntil goes from unset to set exactly in a step whose counted
\* cancellations bring cancelCount to 10 or more, its value then is
\* now + 30 minutes, and while it is set and not expired no step changes it.
C8_CooldownEntry ==
    [][\A i \in DOMAIN trackedMarkets :
          i \in DOMAIN trackedMarkets' =>
            LET pre == trackedMarkets[i]
                post == trackedMarkets'[i]
                counted == PassOf(i) /\ CountedIn(log'.batches) > 0
                unset == pre.cooldownUntil = 0 \/ ExpiryOf(i)
            IN  /\ unset => (post.cooldownUntil # 0
                                <=> (counted /\ post.cancelCount >= CANCEL_LIMIT))
                /\ (unset /\ post.cooldownUntil # 0)
                        => post.cooldownUntil = now + COOLDOWN_SPAN
                /\ ~unset => post.cooldownUntil = pre.cooldownUntil]_vars

\* a pass in an unexpired cooldown, at a clock reading later than the entry,
\* that counted further cancellations and left cooldownUntil as it was
C8_Witness ==
    /\ log.op = "rebalance"
    /\ StartedInCooldown
    /\ CountedIn(log.batches) > 0
    /\ log.pre.cooldownUntil < now + COOLDOWN_SPAN
    /\ trackedMarkets[log.m].cooldownUntil = log.pre.cooldownUntil
    /\ trackedMarkets[log.m].cancelCount > CANCEL_LIMIT

\* C9: every rebalance pass that finds now >= cooldownUntil restarts
\* cancelCount from 0 and clears cooldownUntil, and no other step lowers
\* cancelCount or clears cooldownUntil.
C9_CooldownExpiry ==
    [][\A i \in DOMAIN trackedMarkets :
          i \in DOMAIN trackedMarkets' =>
            LET pre == trackedMarkets[i]
                post == trackedMarkets'[i]
            IN  /\ ExpiryOf(i) =>
                    /\ post.cancelCount = CountedIn(log'.batches)
                    /\ post.cooldownUntil = 0 \/ post.cancelCount >= CANCEL_LIMIT
                /\ post.cancelCount < pre.cancelCount => ExpiryOf(i)
                /\ (pre.cooldownUntil # 0 /\ post.cooldownUntil = 0) => ExpiryOf(i)]_vars

\* a pass that found the cooldown expired and returned the market to Active
C9_Witness ==
    /\ log.op = "rebalance"
    /\ log.pre.cooldownUntil > 0
    /\ now >= log.pre.cooldownUntil
    /\ log.pre.cancelCount >= CANCEL_LIMIT
    /\ trackedMarkets[log.m].cooldownUntil = 0
    /\ trackedMarkets[log.m].cancelCount < CANCEL_LIMIT

\* C10 as stated: a pass that starts in an unexpired cooldown sends the
\* gateway a cancellation of every tracked order of the market and does
\* nothing else: no order book fetch, no placement, no second batch.
C10_CooldownPassCancelsAll ==
    [][(pc = "rebalance" /\ InCooldown(trackedMarkets[cursor], now)) =>
          LET pre == trackedMarkets[cursor]
          IN  /\ log'.fetched = 0
              /\ log'.placed = 0
              /\ IF pre.orders = <<>> THEN log'.batches = <<>>
                 ELSE /\ Len(log'.batches) = 1
                      /\ log'.batches[1].sent = Hashes(pre.orders)]_vars

\* C10, amended: a pass that starts in an unexpired cooldown picks every
\* tracked order of the market for one cancel batch, sends the gateway those
\* of them whose order details it obtained, and does nothing else: no order
\* book fetch, no placement, no second batch.
C10_CooldownPassPicksAll ==
    [][(pc = "rebalance" /\ InCooldown(trackedMarkets[cursor], now)) =>
          LET pre == trackedMarkets[cursor]
          IN  /\ log'.fetched = 0
              /\ log'.placed = 0
              /\ IF pre.orders = <<>> THEN log'.batches = <<>>
                 ELSE /\ Len(log'.batches) = 1
                      /\ log'.batches[1].asked = Hashes(pre.orders)
                      /\ log'.batches[1].sent \subseteq log'.batches[1].asked]_vars

\* a cooldown pass over several tracked orders that sent the gateway some of
\* them and left out one whose details it did not obtain
C10_Witness ==
    /\ log.op = "rebalance"
    /\ StartedInCooldown
    /\ log.pre.len > 1
    /\ Len(log.batches) = 1
    /\ log.batches[1].sent # {}
    /\ log.batches[1].sent # log.batches[1].asked
    /\ log.fetched = 0
    /\ log.placed = 0

\* C11: the reconciliation leaves the cancelCount and the cooldownUntil of
\* every tracked market as they were, whatever tracked orders it removes for
\* being absent from the gateway's listing of the open orders.
C11_SyncLeavesCooldownAccounting ==
    [][pc = "sync" =>
          /\ DOMAIN trackedMarkets' = DOMAIN trackedMarkets
          /\ \A i \in DOMAIN trackedMarkets :
                /\ trackedMarkets'[i].cancelCount = trackedMarkets[i].cancelCount
                /\ trackedMarkets'[i].cooldownUntil = trackedMarkets[i].cooldownUntil]_vars

\* a reconciliation that removed a tracked order of a market in cooldown
C11_Witness ==
    /\ log.op = "sync"
    /\ log.failAt = 0
    /\ \E i \in DOMAIN trackedMarkets :
          /\ log.before[i] \ Hashes(trackedMarkets[i].orders) # {}
          /\ trackedMarkets[i].cancelCount >= CANCEL_LIMIT
          /\ trackedMarkets[i].cooldownUntil > now

\* C12: an iteration of the monitor loop runs its phases in order: the sale
\* of the positions, the re-open check exactly when something was sold, the
\* reconciliation, which either reconciles every tracked market or, its
\* listing having failed, none, then one rebalance pass per tracked market in
\* the order of the collection, each changing its own market only, then the
\* wait.  No rebalance pass comes before the reconciliation step is over.
C12_PhasesInOrder ==
    [][/\ pc = "sell" =>
            /\ pc' = (IF positionSold' THEN "reopen" ELSE "sync")
            /\ trackedMarkets' = trackedMarkets
       /\ pc = "reopen" => pc' = "sync" /\ log'.op = "reopen"
       /\ pc = "sync" =>
            /\ pc' = "rebalance" /\ cursor' = 1 /\ log'.op = "sync"
            /\ IF log'.failAt = 0
               THEN \A i \in DOMAIN trackedMarkets :
                        Hashes(trackedMarkets'[i].orders) = log'.listed[i]
               ELSE trackedMarkets' = trackedMarkets
       /\ pc = "rebalance" =>
            /\ log'.op = "rebalance" /\ log'.m = cursor
            /\ \A j \in DOMAIN trackedMarkets :
                    j # cursor => trackedMarkets'[j] = trackedMarkets[j]
            /\ IF cursor < Len(trackedMarkets)
               THEN pc' = "rebalance" /\ cursor' = cursor + 1
               ELSE pc' = "sleep"
       /\ pc = "sleep" => pc' = "sell" /\ trackedMarkets' = trackedMarkets
       /\ pc' = "rebalance" => pc \in {"sync", "rebalance"}]_vars

\* the rebalance pass of the second of two tracked markets has shifted its
\* ladder, after the pass of the first one had shifted that one's
C12_Witness ==
    /\ Len(trackedMarkets) = 2
    /\ log.op = "rebalance"
    /\ log.m = 2
    /\ pc = "sleep"
    /\ log.branch \in {"down", "up"}
    /\ trackedMarkets[1].cancelCount > 0

\* C13: after a rebalance pass in which every call succeeded, a second pass
\* of the same market against the same order book, with the gateway's open
\* orders being the tracked ones and every call succeeding again, cancels no
\* order and places no order.
C13_SecondRunDoesNothing ==
    (log.op = "rebalance" /\ log.plain) =>
        LET again == checkAndRebalance(trackedMarkets[log.m],
                                       Answers(AllOk, log.bids, Plain), now)
        IN  again.batches = <<>> /\ again.placed = <<>>

\* the pass of the last step ran out of prices above 0: its refill left the
\* ladder short at the lowest valid price, one tick, or the ladder ends there
FloorCut ==
    \/ /\ log.mid # <<>>
       /\ Len(log.mid) < LADDER_SIZE
       /\ log.mid[Len(log.mid)].price = 1
    \/ /\ trackedMarkets[log.m].orders # <<>>
       /\ trackedMarkets[log.m].orders[Len(trackedMarkets[log.m].orders)].price = 1

\* C14: after a rebalance pass in which every call succeeded, of a market
\* that did not start the pass in an unexpired cooldown, against an order book
\* with bids (deep enough to anchor a ladder when the market tracked no
\* order), the ladder holds exactly 5 orders, unless the pass ran out of
\* prices above 0 below its anchor.
C14_FullLadderAfterPass ==
    (/\ log.op = "rebalance"
     /\ log.plain
     /\ ~StartedInCooldown
     /\ log.bids # <<>>
     /\ (log.pre.len > 0 \/ StartIndex(log.bids) >= 0)) =>
        (Len(trackedMarkets[log.m].orders) = LADDER_SIZE \/ FloorCut)

\* the cancellation batch of the shift of the last step's pass
ShiftBatch == log.batches[Len(log.batches)]

\* C15: an up-shift of k >= 1 orders in a pass in which every call succeeded
\* cancels exactly the k lowest orders of the ladder and places exactly k
\* orders above it, at one to k ticks above the old top, so that the ladder
\* keeps its length; for every k up to the length of the ladder.
C15_UpShiftMovesK ==
    (log.op = "rebalance" /\ log.plain /\ log.branch = "up") =>
        LET mid == log.mid
            k == Cardinality(ShiftBatch.asked)
            orders == trackedMarkets[log.m].orders
        IN  /\ k >= 1
            /\ ShiftBatch.done =
                    {mid[i].orderHash : i \in (Len(mid) - k + 1)..Len(mid)}
            /\ Len(orders) = Len(mid)
            /\ \A i \in 1..k : orders[i].price = mid[1].price + (k - i + 1)
            /\ \A i \in (k + 1)..Len(mid) : orders[i] = mid[i - k]

\* the sum of the values of the bids priced strictly above p
RECURSIVE BidValueAbove(_, _)
BidValueAbove(bids, p) ==
    IF bids = <<>> THEN 0
    ELSE (IF Head(bids).price > p THEN Head(bids).value ELSE 0)
         + BidValueAbove(Tail(bids), p)

\* the directional step of the last step's pass was reached: the pass got an
\* order book with bids and had a ladder after the refill
DirectionalStep == log.op = "rebalance" /\ log.mid # <<>>

\* the down-shift condition of the directional step
DownCondition ==
    \/ log.bids[1].price <= log.mid[1].price
    \/ BidValueAbove(log.bids, log.mid[1].price) < VALUE_THRESHOLD

\* the up-shift is considered
UpConsidered ==
    ~DownCondition /\ log.bids[1].price > log.mid[1].price + 1

\* the largest count i, at most the gap between best bid and top in ticks and
\* at most the ladder length, such that the bids strictly above top + j ticks
\* are worth at least the threshold for every j in 1..i
UpCount ==
    LET top == log.mid[1].price
        limit == Min(log.bids[1].price - top, Len(log.mid))
        ok(i) == \A j \in 1..i :
                    BidValueAbove(log.bids, top + j) >= VALUE_THRESHOLD
    IN  CHOOSE i \in 0..limit :
            ok(i) /\ \A i2 \in (i + 1)..limit : ~ok(i2)

\* the batches of the trim of the last step's pass: one if the pass began
\* with more than 5 orders
TrimBatches == IF log.pre.len > LADDER_SIZE THEN 1 ELSE 0

\* the n lowest orders of a ladder
Bottom(orders, n) == {orders[i].orderHash : i \in (Len(orders) - n + 1)..Len(orders)}

\* C16: the directional step shifts up only when the down-shift condition is
\* false and the best bid is more than one tick above the top order; it then
\* picks the UpCount lowest orders for cancellation, UpCount being the largest
\* count within the gap and the ladder length all of whose steps have bids
\* worth at least 500 strictly above them; with a count of 0 the step cancels
\* and places nothing.
C16_UpShiftCount ==
    DirectionalStep =>
        /\ log.branch = "up" => UpConsidered /\ UpCount >= 1
        /\ (UpConsidered /\ UpCount >= 1) =>
                /\ log.branch \in {"up", "threw"}
                /\ Len(log.batches) = TrimBatches + 1
                /\ ShiftBatch.asked = Bottom(log.mid, UpCount)
        /\ (UpConsidered /\ UpCount = 0) =>
                /\ log.branch = "stay"
                /\ Len(log.batches) = TrimBatches
                /\ trackedMarkets[log.m].orders = log.mid

\* an up-shift of two orders that the depth stopped short of the gap and of
\* the ladder length
C16_Witness ==
    /\ DirectionalStep
    /\ log.branch = "up"
    /\ UpCount = 2
    /\ Cardinality(ShiftBatch.done) = 2
    /\ log.bids[1].price - log.mid[1].price > 2
    /\ Len(log.mid) > 2

\* the best bid is several ticks above the top order and the depth above the
\* first step is short: the up-shift is considered and nothing is moved
C16_WitnessNone ==
    /\ DirectionalStep
    /\ UpConsidered
    /\ UpCount = 0
    /\ log.bids[1].price > log.mid[1].price + 2

\* the number of orders the down-shift moves: the tracked orders priced at or
\* above the best bid, at least 1, at most the ladder
DownCount ==
    Min(Max(1, Cardinality({i \in DOMAIN log.mid :
                                log.mid[i].price >= log.bids[1].price})),
        Len(log.mid))

\* the n highest orders of a ladder
Top(orders, n) == {orders[i].orderHash : i \in 1..n}

\* C17: the directional step shifts down exactly when the best bid is at or
\* below the top order or the bids strictly above the top order are worth less
\* than 500; it then picks for cancellation, from the top, as many orders as
\* are priced at or above the best bid, one if there is none, never more than
\* the ladder holds.
C17_DownShiftCount ==
    DirectionalStep =>
        /\ log.branch = "down" => DownCondition
        /\ DownCondition =>
                /\ log.branch \in {"down", "threw"}
                /\ Len(log.batches) = TrimBatches + 1
                /\ ShiftBatch.asked = Top(log.mid, DownCount)
                /\ DownCount \in 1..Len(log.mid)

\* a down-shift of one order that only the thin depth above the top order
\* triggered: the best bid is above the top order
C17_Witness ==
    /\ DirectionalStep
    /\ log.branch = "down"
    /\ log.bids[1].price > log.mid[1].price
    /\ BidValueAbove(log.bids, log.mid[1].price) < VALUE_THRESHOLD
    /\ Cardinality(ShiftBatch.done) = 1

\* a down-shift of two orders priced at or above the best bid, out of more
C17_WitnessTwo ==
    /\ DirectionalStep
    /\ log.branch = "down"
    /\ DownCount = 2
    /\ Len(log.mid) > 2
    /\ Cardinality(ShiftBatch.done) = 2

\* the orders that a down-shift of k orders places: at one to k ticks below
\* the lowest order, stopping before a price that is not above 0
PlacedBelow(k) == Min(k, log.mid[Len(log.mid)].price - 1)

\* C18: a down-shift that picks k orders, fewer than the ladder holds, in a
\* pass in which every call succeeded cancels those k highest orders and
\* places new orders at 1..k ticks below the lowest remaining order, stopping
\* before a price that is not above 0; the orders that were not picked stay as
\* they were.  Orders are counted by their references.
C18_DownShiftMovesK ==
    (DirectionalStep /\ log.plain /\ log.branch = "down"
        /\ Cardinality(Top(log.mid, DownCount)) < Cardinality(Hashes(log.mid))) =>
        LET mid == log.mid
            k == Cardinality(Top(mid, DownCount))
            kept == SelectSeq(mid, LAMBDA o : o.orderHash \notin Top(mid, DownCount))
            orders == trackedMarkets[log.m].orders
        IN  /\ ShiftBatch.done = Top(mid, DownCount)
            /\ Len(orders) = Len(kept) + PlacedBelow(k)
            /\ \A i \in 1..Len(kept) : orders[i] = kept[i]
            /\ \A j \in 1..PlacedBelow(k) :
                    orders[Len(kept) + j].price = mid[Len(mid)].price - j

\* a down-shift of several orders of a full ladder, all of them placed again
\* below the lowest remaining order
C18_Witness ==
    /\ DirectionalStep
    /\ log.plain
    /\ log.branch = "down"
    /\ Len(log.mid) = LADDER_SIZE
    /\ DownCount \in 2..(LADDER_SIZE - 1)
    /\ PlacedBelow(DownCount) = DownCount
    /\ Len(trackedMarkets[log.m].orders) = LADDER_SIZE

\* a down-shift of several orders that the price floor cut short
C18_WitnessFloor ==
    /\ DirectionalStep
    /\ log.plain
    /\ log.branch = "down"
    /\ DownCount \in 2..(Len(log.mid) - 1)
    /\ PlacedBelow(DownCount) \in 1..(DownCount - 1)

\* C19: when the best bid is above the top order, by no more than one tick,
\* and the bids strictly above the top order are worth at least 500, the
\* directional step cancels no order, places no order and leaves cancelCount
\* as the trim left it: the ladder after the pass is the ladder after the
\* refill.
C19_NoShiftChangesNothing ==
    (/\ DirectionalStep
     /\ ~DownCondition
     /\ log.bids[1].price <= log.mid[1].price + 1) =>
        /\ log.branch = "stay"
        /\ Len(log.batches) = TrimBatches
        /\ trackedMarkets[log.m].orders = log.mid
        /\ trackedMarkets[log.m].cancelCount =
                (IF log.pre.cooldownUntil > 0 THEN 0 ELSE log.pre.cancelCount)
                + CountedIn(log.batches)

\* a pass over a full ladder, with cancellations counted earlier, whose best
\* bid is one tick above the top order with enough depth: nothing moved
C19_Witness ==
    /\ DirectionalStep
    /\ ~DownCondition
    /\ log.bids[1].price = log.mid[1].price + 1
    /\ log.pre.len = LADDER_SIZE
    /\ log.pre.cancelCount > 0
    /\ log.batches = <<>>
    /\ log.placed = 0
    /\ trackedMarkets[log.m].cancelCount = log.pre.cancelCount

\* the sum of the values of the first n bids
RECURSIVE SumOfFirst(_, _)
SumOfFirst(bids, n) ==
    IF n = 0 THEN 0 ELSE SumOfFirst(bids, n - 1) + bids[n].value

\* the 0-based indexes below 6 at which the running sum of the bid values of
\* the snapshot in log exceeds the depth threshold
DepthHits ==
    {i \in 0..(DEPTH_SCAN - 1) :
        i < Len(log.bids) /\ SumOfFirst(log.bids, i + 1) > MIN_DEPTH_CHECK_USD}

DepthIndex == CHOOSE k \in DepthHits : \A i \in DepthHits : k <= i

\* C20: for a market without existing orders and a snapshot whose running sum
\* of bid values first exceeds the depth threshold at index k < 6, the
\* initializer targets min(5, 6 - k) prices, the first one tick below the price
\* of bid k and each next one tick lower, cut off before a price that is not
\* above 0: strictly decreasing whole ticks above 0, at most 5; these are the
\* prices of the orders it places.
C20_InitialTargets ==
    (log.op = "placed" /\ DepthHits # {}) =>
        LET anchor == log.bids[DepthIndex + 1].price - 1
            count == Min(Min(LADDER_SIZE, DEPTH_SCAN - DepthIndex), Max(0, anchor))
        IN  /\ log.targets = [i \in 1..count |-> anchor - (i - 1)]
            /\ Len(log.targets) <= LADDER_SIZE
            /\ \A i \in DOMAIN log.targets : log.targets[i] > 0
            /\ \A i \in 1..(Len(log.targets) - 1) :
                    log.targets[i + 1] = log.targets[i] - 1
            /\ Len(trackedMarkets) = 1
            /\ [i \in DOMAIN trackedMarkets[1].orders |->
                    trackedMarkets[1].orders[i].price] = log.targets

\* the depth threshold is first exceeded at the fourth bid: three targets
C20_Witness ==
    /\ log.op = "placed"
    /\ DepthHits # {}
    /\ DepthIndex = 3
    /\ Len(log.targets) = 3
    /\ Len(trackedMarkets) = 1

\* the price floor cuts the targets off: fewer than min(5, 6 - k) of them
C20_WitnessFloor ==
    /\ log.op = "placed"
    /\ DepthHits # {}
    /\ Len(log.targets) \in 1..(Min(LADDER_SIZE, DEPTH_SCAN - DepthIndex) - 1)
    /\ log.targets[Len(log.targets)] = 1

\* the running sum of the bid values over the first min(6, length) bids never
\* exceeds the depth threshold
Insufficient(bids) ==
    \A i \in 1..Min(DEPTH_SCAN, Len(bids)) :
        SumOfFirst(bids, i) <= MIN_DEPTH_CHECK_USD

\* C21: when the running sum of the bid values over the first min(6, length)
\* bids of the snapshot never exceeds the depth threshold, a sum equal to it
\* included, no order is placed from the snapshot: at startup the market
\* tracks its existing orders and nothing else, and a rebalance pass that
\* finds the ladder empty leaves it empty and places nothing.
C21_InsufficientDepthPlacesNothing ==
    /\ log.op = "main" =>
            \A i \in DOMAIN allMarkets :
                Insufficient(log.bids[i]) =>
                    \A j \in DOMAIN trackedMarkets :
                        trackedMarkets[j].id = allMarkets[i] =>
                            Hashes(trackedMarkets[j].orders) = Hashes(log.existing[i])
    /\ (/\ log.op = "rebalance"
        /\ ~StartedInCooldown
        /\ log.pre.len = 0
        /\ Insufficient(log.bids)) =>
            /\ log.placed = 0
            /\ log.batches = <<>>
            /\ trackedMarkets[log.m].orders = <<>>

\* a rebalance pass of a market with an empty ladder against a book of two
\* bids worth exactly the threshold together: nothing was placed
C21_Witness ==
    /\ log.op = "rebalance"
    /\ ~StartedInCooldown
    /\ log.pre.len = 0
    /\ Len(log.bids) = 2
    /\ SumOfFirst(log.bids, 2) = MIN_DEPTH_CHECK_USD
    /\ log.placed = 0
    /\ trackedMarkets[log.m].orders = <<>>

\* the startup of a market with an existing order against such a book: the
\* market tracks the existing order only
C21_WitnessStartup ==
    /\ log.op = "main"
    /\ Len(log.bids[1]) = 2
    /\ SumOfFirst(log.bids[1], 2) = MIN_DEPTH_CHECK_USD
    /\ log.existing[1] # <<>>
    /\ Len(trackedMarkets) = 1
    /\ Hashes(trackedMarkets[1].orders) = Hashes(log.existing[1])

\* the rebalance pass about to be taken trims: the market holds more than 5
\* orders and is not in an unexpired cooldown
TrimOf(i) ==
    /\ PassOf(i)
    /\ Len(trackedMarkets[i].orders) > LADDER_SIZE
    /\ ~InCooldown(trackedMarkets[i], now)

\* the orders that the trim of n orders picks: the n - 5 lowest
TrimPick(orders) == Bottom(orders, Len(orders) - LADDER_SIZE)

\* the ladder of market i after the trim and the refill of the last step's
\* pass: the ladder the directional step started from or, when the pass ended
\* before it, the ladder the pass left
AfterTrimStep(i) ==
    IF log.mid # <<>> THEN log.mid ELSE trackedMarkets[i].orders

RefillOf(i) ==
    /\ PassOf(i)
    /\ Len(trackedMarkets[i].orders) < LADDER_SIZE
    /\ ~InCooldown(trackedMarkets[i], now)

\* the prices of a ladder, from the top
PriceSeq(orders) == [i \in DOMAIN orders |-> orders[i].price]

\* n prices one tick apart from the price first down, those above 0
Descending(first, n) == [i \in 1..Max(0, Min(n, first)) |-> first - (i - 1)]

\* the first bid of a snapshot at which the running sum of the bid values
\* exceeds the depth threshold
DepthBid(bids) ==
    bids[CHOOSE k \in 1..Len(bids) :
            /\ SumOfFirst(bids, k) > MIN_DEPTH_CHECK_USD
            /\ \A i \in 1..(k - 1) : SumOfFirst(bids, i) <= MIN_DEPTH_CHECK_USD]

\* what the refill makes of the ladder orders against the snapshot bids: the
\* ladder is filled up to 5 orders from one tick below its lowest order or,
\* when it is empty, from one tick below the depth bid
Refilled(orders, bids) ==
    PriceSeq(orders)
    \o Descending(IF orders = <<>> THEN DepthBid(bids).price - 1
                  ELSE orders[Len(orders)].price - 1,
                  LADDER_SIZE - Len(orders))

C23_WitnessEmpty ==
    /\ DirectionalStep
    /\ log.plain
    /\ log.pre.len = 0
    /\ DepthHits # {}
    /\ DepthIndex = 1
    /\ log.mid[1].price = log.bids[2].price - 1

\* a refill that the price floor cut short
C23_WitnessFloor ==
    /\ DirectionalStep
    /\ log.plain
    /\ log.pre.len \in 1..(LADDER_SIZE - 1)
    /\ Len(log.mid) < LADDER_SIZE
    /\ log.mid[Len(log.mid)].price = 1

\* the pass of the last step reached a shift: its last batch is the shift's
ShiftStep == DirectionalStep /\ Len(log.batches) = TrimBatches + 1

\* the entries that the shift of the last step's pass removed from the ladder:
\* those of the orders sent to the gateway, when the batch returned success
ShiftRemoved ==
    IF ShiftBatch.n > 0
    THEN Cardinality({j \in DOMAIN log.mid : log.mid[j].orderHash \in ShiftBatch.sent})
    ELSE 0

\* the orders that the shift of the last step's pass placed
ShiftPlaced ==
    Len(trackedMarkets[log.m].orders) - (Len(log.mid) - ShiftRemoved)

\* C24: in the cancel-then-place pair of a down-shift or an up-shift, orders
\* are placed only when the cancel batch returned success, and at most as many
\* as the batch removed from the ladder; a ladder of at most 5 orders at the
\* start of a pass holds at most 5 after the refill and at the end of the pass.
C24_PlaceAfterCancel ==
    /\ ShiftStep =>
            /\ ShiftPlaced >= 0
            /\ ShiftPlaced <= ShiftRemoved
            /\ ShiftBatch.n = 0 => ShiftPlaced = 0
    /\ (log.op = "rebalance" /\ log.pre.len <= LADDER_SIZE) =>
            /\ Len(log.mid) <= LADDER_SIZE
            /\ Len(trackedMarkets[log.m].orders) <= LADDER_SIZE

\* a shift of a full ladder that removed several orders and placed as many
C24_Witness ==
    /\ ShiftStep
    /\ log.pre.len = LADDER_SIZE
    /\ ShiftRemoved >= 2
    /\ ShiftPlaced = ShiftRemoved
    /\ Len(trackedMarkets[log.m].orders) = LADDER_SIZE

\* a shift whose cancel batch did not return success: nothing was placed
C24_WitnessFailed ==
    /\ ShiftStep
    /\ ShiftBatch.sent # {}
    /\ ShiftBatch.n = 0
    /\ ShiftPlaced = 0

\* the last step was a reconciliation whose listing failed
SyncFailed == log.op = "sync" /\ log.failAt > 0

\* the last step was the pass of a market that met a failure, and it was not
\* the last market of the collection
PassFailed ==
    log.op = "rebalance" /\ ~log.plain /\ log.m < Len(trackedMarkets)

\* the last step was the pass of market i
PassRan(i) == log.op = "rebalance" /\ log.m = i

\* C25: no gateway failure is fatal. From the liquidation, the re-open and the
\* reconciliation of a tick, failed or not, the tick goes on to the pass of
\* every tracked market; a pass that met a failure is followed by the passes
\* of the markets after it; and the loop goes from every tick to its wait and
\* from every wait to the next tick.
C25_NoFailureIsFatal ==
    /\ \A i \in 1..2 :
          (pc \in {"sell", "reopen", "sync"} /\ i <= Len(trackedMarkets))
              ~> PassRan(i)
    /\ \A i \in 1..2 :
          (SyncFailed /\ pc = "rebalance" /\ i <= Len(trackedMarkets))
              ~> PassRan(i)
    /\ PassFailed ~> PassRan(Len(trackedMarkets))
    /\ (pc = "sell") ~> (pc = "sleep")
    /\ (pc = "sleep") ~> (pc = "sell")

\* the pass of the first of two markets met a failure, and the loop stands
\* before the pass of the second
C25_Witness ==
    /\ PassFailed
    /\ Len(trackedMarkets) = 2
    /\ pc = "rebalance"
    /\ cursor = 2

\* the second market's pass ran to its end in a run that had met a failure
C25_WitnessSync ==
    /\ PassRan(2)
    /\ faults = MaxFaults
    /\ log.plain
    /\ log.pre.len > 0
    /\ pc = "sleep"

\* the step is the pass of market i in a tick that the market began with an
\* empty ladder (the reconciliation of the tick found none of its orders
\* tracked), outside cooldown, over a book of sufficient depth, with every
\* call of the pass answered by the plain success
RefillDue(i) ==
    /\ pc = "rebalance"
    /\ cursor = i
    /\ log.op = "sync"
    /\ log.before[i] = {}
    /\ ~(trackedMarkets[i].cooldownUntil > 0 /\ now < trackedMarkets[i].cooldownUntil)
    /\ log'.plain
    /\ log'.bids # <<>>
    /\ ~Insufficient(log'.bids)

\* C26: a market whose ladder is empty stays tracked, and the pass of a tick
\* that it began with an empty ladder, outside cooldown, over a book of
\* sufficient depth and with placement succeeding, ends with a ladder that is
\* not empty.
C26_EmptyLadderRefilled ==
    [][/\ Len(trackedMarkets) > 0 => DOMAIN trackedMarkets' = DOMAIN trackedMarkets
       /\ \A i \in DOMAIN trackedMarkets :
            trackedMarkets'[i].id = trackedMarkets[i].id
       /\ \A i \in DOMAIN trackedMarkets :
            RefillDue(i) => trackedMarkets'[i].orders # <<>>]_vars

\* the pass of a tick that market i began with an empty ladder, and in which
\* the reconciliation added no order, ends with a ladder that is not empty
C26_StillEmptyLadderRefilled ==
    [][\A i \in DOMAIN trackedMarkets :
            (RefillDue(i) /\ trackedMarkets[i].orders = <<>>) =>
                trackedMarkets'[i].orders # <<>>]_vars

\* a ladder that was empty when its pass began holds five orders after it
C26_Witness ==
    /\ log.op = "rebalance"
    /\ log.pre.len = 0
    /\ log.pre.cooldownUntil = 0
    /\ log.plain
    /\ log.pre.cancelCount > 0
    /\ Len(trackedMarkets[log.m].orders) = LADDER_SIZE

\* the orders of a ladder that the gateway accepted from the core: those whose
\* reference is not that of an order placed outside the core
AcceptedFromCore(orders) ==
    {j \in DOMAIN orders :
        orders[j].orderHash \notin {e.hash : e \in ExternalOrders}}

InRange(orders) ==
    \A j \in AcceptedFromCore(orders) :
        orders[j].price > 0 /\ orders[j].price < PRICE_ONE

\* C27: every order that the core submitted to the gateway, and that the
\* gateway accepted, has a price strictly between 0 and 1: the orders of every
\* ladder at the end of a step, and those of the ladder of a pass after its
\* refill.
C27_SubmittedPricesInRange ==
    /\ \A i \in DOMAIN trackedMarkets : InRange(trackedMarkets[i].orders)
    /\ log.op = "rebalance" => InRange(log.mid)

\* the remote orders of market i that a reconciliation step found untracked
FoundUntracked(i) ==
    {e \in ExternalOrders : /\ e.marketId = trackedMarkets[i].id
                            /\ e.hash \in log'.listed[i]
                            /\ e.hash \notin log'.before[i]}

\* a remote order in the shape the reconciliation expects
WellShaped(e) ==
    /\ e.makerAmount # 0
    /\ e.takerAmount # 0
    /\ e.side \in {SIDE_BUY, SIDE_SELL}

\* the tracked prices that a ladder holds for the reference h
PricesOf(orders, h) ==
    {orders[j].price : j \in {k \in DOMAIN orders : orders[k].orderHash = h}}

\* the step is a reconciliation whose listing was fetched in full
Reconciles == pc = "sync" /\ log'.op = "sync" /\ log'.failAt = 0

\* C28: a reconciliation tracks an untracked remote order at maker/taker when
\* it is a buy and at taker/maker when it is a sell, and does not track a
\* remote order of any other shape (an amount missing, or a side that is
\* neither buy nor sell).
C28_ReconciledPrice ==
    [][Reconciles =>
        \A i \in DOMAIN trackedMarkets : \A e \in FoundUntracked(i) :
            IF WellShaped(e)
            THEN PricesOf(trackedMarkets'[i].orders, e.hash) =
                    {IF e.side = SIDE_BUY THEN Ratio(e.makerAmount, e.takerAmount)
                                          ELSE Ratio(e.takerAmount, e.makerAmount)}
            ELSE PricesOf(trackedMarkets'[i].orders, e.hash) = {}]_vars

\* the part of C28 about the orders in the expected shape
C28_WellShapedPrice ==
    [][Reconciles =>
        \A i \in DOMAIN trackedMarkets : \A e \in FoundUntracked(i) :
            WellShaped(e) =>
                PricesOf(trackedMarkets'[i].orders, e.hash) =
                    {IF e.side = SIDE_BUY THEN Ratio(e.makerAmount, e.takerAmount)
                                          ELSE Ratio(e.takerAmount, e.makerAmount)}]_vars

\* a remote sell order is tracked at taker/maker
C28_Witness ==
    /\ log.op = "sync"
    /\ \E i \in DOMAIN trackedMarkets : \E e \in ExternalOrders :
            /\ e.side = SIDE_SELL
            /\ e.hash \in log.listed[i] \ log.before[i]
            /\ PricesOf(trackedMarkets[i].orders, e.hash) =
                    {Ratio(e.takerAmount, e.makerAmount)}

\* the records that the storage file holds for the reference h
RecordsOf(h) ==
    Cardinality({j \in DOMAIN StoredRecords(log.stored) :
                    StoredRecords(log.stored)[j] = h})

StoredHashes == {StoredRecords(log.stored)[j] : j \in DOMAIN StoredRecords(log.stored)}

\* C29: storage holds at most one record for an order reference, whatever
\* the adds and deletes so far.
C29_OneRecordPerReference ==
    \A h \in StoredHashes : RecordsOf(h) <= 1

\* C30: at the end of a step storage holds no record of an order of the
\* tracked market that is not tracked.
C30_StoredOrdersAreTracked ==
    \A k \in DOMAIN log.stored :
        log.stored[k].market_id = trackedMarkets[1].id =>
            \A j \in DOMAIN log.stored[k].orders :
                log.stored[k].orders[j].orderHash \in Hashes(trackedMarkets[1].orders)

\* the part of C30 about cancellation: a batch cancellation deletes from
\* storage the record of every order that it removes from the ladder
C30_CancelledRecordsRemoved ==
    [][log'.op = "cancel" =>
        \A h \in Hashes(trackedMarkets[1].orders) \ Hashes(trackedMarkets'[1].orders) :
            \A j \in DOMAIN StoredRecords(log'.stored) :
                StoredRecords(log'.stored)[j] # h]_vars

\* ---------------------------------------------------------------- C31
\* the pages of a listing of which the fetch numbered failAt fails
FetchedPages(pages, failAt) ==
    IF failAt = 0 THEN pages
    ELSE SubSeq(pages, 1, failAt - 1) \o <<[ok |-> FALSE]>>

\* what the paginated listing answers for the fetches of pages
ListingAnswer(listing, pages, failAt, res) ==
    /\ res.success <=> failAt = 0
    /\ res.success => res.data = listing
    /\ res.success =>
          res.data = Flatten([i \in DOMAIN pages |-> pages[i].orders])

\* the listings the reconciliation of the current tick can be given
SyncListings ==
    {Listing(trackedMarkets, {}, extras) \o (IF dup THEN SetToSeq(extras) ELSE <<>>) :
        extras \in SUBSET ExternalOrders, dup \in BOOLEAN}

\* C31: the paginated open-order listing reports success only when every page
\* was fetched, and its data is then the concatenation of all the pages in
\* their order; when the fetch of any page fails the result is a failure,
\* never a success that carries the pages fetched before it.
C31_ListingAllOrNothing ==
    pc = "sync" =>
        \A listing \in SyncListings :
            \A failAt \in 0..Len(Paged(listing)) :
                ListingAnswer(listing, Paged(listing), failAt,
                    getOpenOrdersRecursively(
                        FetchedPages(Paged(listing), failAt), <<>>))

\* a reconciliation whose listing spanned more than one page met the failure
\* of the fetch of its second page
C31_Witness == log.op = "sync" /\ log.failAt = 2

\* ---------------------------------------------------------------- C32
\* the orders of a ladder at price p whose reference is not in hashes
NotIn(orders, hashes, p) ==
    Len(SelectSeq(orders, LAMBDA o : o.price = p /\ o.orderHash \notin hashes))

\* what the re-open step may make of one tracked market
ReopenedWithin(before, after) ==
    /\ [after EXCEPT !.orders = before.orders] = before
    /\ Len(after.orders) <= Len(before.orders)
    /\ \A p \in Prices(after.orders) :
          NotIn(after.orders, Hashes(before.orders), p)
              <= NotIn(before.orders, Hashes(after.orders), p)

\* C32: the re-open step runs in a tick only when the liquidator reported a
\* sold position in that tick; every order it adds to a market replaces, at
\* the same price, an order of that market it removed from tracking, so the
\* tracked order count of no market grows, and cancelCount and cooldownUntil
\* stay as they were.
C32_ReopenReplaces ==
    [][pc = "reopen" =>
          /\ positionSold
          /\ \A i \in DOMAIN trackedMarkets :
                ReopenedWithin(trackedMarkets[i], trackedMarkets'[i])]_vars

\* the re-open step replaced an order of a market
C32_Witness == log.op = "reopen" /\ \E i \in DOMAIN log.added : log.added[i] > 0

\* ---------------------------------------------------------------- C33
\* the orders the re-open step found no longer open and whose status is FILLED
FoundFilled(asked) == Len(SelectSeq(asked, LAMBDA a : a.status = "FILLED"))

\* what the re-open step of the current tick does with market i when
\* getOrderByHash answers st and every openOrder call succeeds
ReopenOf(i, st) == checkAndReopenFilledOrders(trackedMarkets[i], st, {})

\* C33: the re-open step replaces an order only when that order filled: for
\* every answer of the gateway about the orders of a market, the step places
\* no more new orders than it found orders with status FILLED, so an order
\* found CANCELLED is never replaced.
C33_ReopensOnlyFilled ==
    pc = "reopen" /\ faults < MaxFaults =>
        \A i \in DOMAIN trackedMarkets :
            \A st \in StatusAnswers(Len(trackedMarkets[i].orders)) :
                Len(ReopenOf(i, st).added) <= FoundFilled(ReopenOf(i, st).asked)

\* ---------------------------------------------------------------- C34
\* the pass about to be taken, of a market that is not in cooldown, fetches
\* an empty order-book snapshot in line 395
EmptySnapshot ==
    /\ pc = "rebalance"
    /\ log'.op = "rebalance"
    /\ log'.fetched >= 1
    /\ log'.bids = <<>>

\* the market as the pass finds it, after the reset of an expired cooldown
BeforeTrim(tracked, time) ==
    IF tracked.cooldownUntil > 0 /\ time >= tracked.cooldownUntil
    THEN CooldownExpired(tracked) ELSE tracked

\* after is before but for what the trim batches did
OnlyTrimmed(before, after, batches) ==
    IF batches = <<>> THEN after = before
    ELSE /\ after.id = before.id
         /\ Hashes(after.orders) \subseteq Hashes(before.orders)
         /\ Hashes(before.orders) \ Hashes(after.orders) \subseteq batches[1].asked
         /\ after.cancelCount = before.cancelCount + batches[1].n
         /\ batches[1].n = 0 => after = before

\* C34: a rebalance pass whose order-book snapshot is empty (the fetch failed
\* or the book has no bids) does no refill and no directional shift: it
\* places no order, issues no cancel batch but that of the trim, and leaves
\* the ladder, cancelCount and cooldownUntil as the trim step left them.
C34_EmptySnapshotEndsPass ==
    [][EmptySnapshot =>
          /\ log'.placed = 0
          /\ log'.mid = <<>>
          /\ Len(log'.batches) =
                (IF Len(trackedMarkets[cursor].orders) > LADDER_SIZE THEN 1 ELSE 0)
          /\ OnlyTrimmed(BeforeTrim(trackedMarkets[cursor], now),
                         trackedMarkets'[cursor], log'.batches)]_vars

\* a pass of a market with fewer than 5 orders ended at an empty snapshot
C34_Witness ==
    /\ log.op = "rebalance"
    /\ log.branch = "nobids"
    /\ log.pre.len < LADDER_SIZE

\* a pass that trimmed its ladder ended at an empty snapshot
C34_WitnessTrimmed ==
    /\ log.op = "rebalance"
    /\ log.branch = "nobids"
    /\ log.pre.len > LADDER_SIZE
    /\ log.batches[1].n > 0

\* ---------------------------------------------------------------- C35
\* C35: in every reachable state, a tracked market has cancelCount of at least
\* 10 exactly when its cooldownUntil is set: an Active market has a count
\* below 10 and a market in cooldown a count of at least 10.
C35_CountMatchesCooldown ==
    \A i \in DOMAIN trackedMarkets :
        trackedMarkets[i].cancelCount >= CANCEL_LIMIT
            <=> trackedMarkets[i].cooldownUntil > 0

\* a market in cooldown whose count went past the limit
C35_Witness ==
    \E i \in DOMAIN trackedMarkets :
        /\ trackedMarkets[i].cooldownUntil > 0
        /\ trackedMarkets[i].cancelCount > CANCEL_LIMIT

\* a market back to Active after a cooldown
C35_WitnessActive ==
    /\ log.op = "rebalance"
    /\ log.pre.cooldownUntil > 0
    /\ trackedMarkets[log.m].cooldownUntil = 0
    /\ trackedMarkets[log.m].cancelCount < CANCEL_LIMIT

\* ---------------------------------------------------------------- C36
\* the last step was a pass that fetched a non-empty snapshot and in which
\* every gateway call succeeded
PlainPassOverBook ==
    /\ log.op = "rebalance"
    /\ log.plain
    /\ log.fetched >= 1
    /\ log.bids # <<>>

C36_WitnessDown ==
    /\ PlainPassOverBook
    /\ log.branch = "down"
    /\ log.mid[1].price >= log.bids[1].price
    /\ trackedMarkets[log.m].orders # <<>>

\* ---------------------------------------------------------------- C37
\* the last step was a pass that refilled an empty ladder from its snapshot
RefilledFromBook ==
    /\ log.op = "rebalance"
    /\ log.pre.len = 0
    /\ log.mid # <<>>

\* the value of the bids of a snapshot above its depth bid
AboveDepthBid(bids) == DepthAbove(bids, DepthBid(bids).price)

\* C37: right after an empty ladder is refilled from a snapshot by the
\* initializer rule, the directional step of the same pass over the same
\* snapshot triggers neither a down-shift nor an up-shift, whatever the
\* snapshot.
C37_RefillThenNoShift ==
    RefilledFromBook =>
        /\ log.branch = "stay"
        /\ Len(log.batches) = 0
        /\ trackedMarkets[log.m].orders = log.mid

\* C37 for the snapshots whose bids above the depth bid are not worth exactly
\* 500: the directional step after the refill of an empty ladder does not
\* shift.
C37_RefillThenNoShiftOffThreshold ==
    (RefilledFromBook /\ AboveDepthBid(log.bids) # VALUE_THRESHOLD) =>
        /\ log.branch = "stay"
        /\ Len(log.batches) = 0
        /\ trackedMarkets[log.m].orders = log.mid

\* an empty ladder was refilled from a snapshot whose depth bid is not its
\* best bid
C37_Witness ==
    /\ RefilledFromBook
    /\ log.branch = "stay"
    /\ log.bids[1].price > log.mid[1].price + 1

\* ---------------------------------------------------------------- C38
\* C38: no order reference appears more than once in the tracked list of a
\* market, after any sequence of ticks and whatever listing the gateway
\* returned, a listing that names one order twice included.
C38_NoReferenceTwice ==
    \A i \in DOMAIN trackedMarkets :
        Len(trackedMarkets[i].orders) = Cardinality(Hashes(trackedMarkets[i].orders))

\* ---------------------------------------------------------------- C40
\* the orders of the batches after the k-th that were removed from tracking
RemovedAfter(batches, k) ==
    UNION {batches[j].sent : j \in {i \in DOMAIN batches : i > k /\ batches[i].n > 0}}

\* the count that the pass of the last step started from
CountBefore ==
    IF log.pre.cooldownUntil > 0 /\ now >= log.pre.cooldownUntil
    THEN 0 ELSE log.pre.cancelCount

\* the signed orders of a pick whose details say what ans says
OrderDataOf(orders, ans) ==
    [i \in DOMAIN orders |-> [hash |-> orders[i].orderHash,
                              found |-> TRUE,
                              isNegRisk |-> i \in ans.neg,
                              isYieldBearing |-> i \in ans.yb]]

\* the type sub-groups of a batch that are not empty
NonEmptyGroups(orderDataList) ==
    {g \in Groups : groupOrdersByType(orderDataList)[g] # <<>>}

\* what the batch cancel reports for the answers res of the sub-groups
ReportsAllOrNothing(orderDataList, res, result) ==
    /\ (result.success /\ ~result.threw) =>
            /\ \A g \in NonEmptyGroups(orderDataList) : res[g] = "ok"
            /\ result.done = {orderDataList[i].hash : i \in DOMAIN orderDataList}
    /\ (\E g \in NonEmptyGroups(orderDataList) : res[g] = "fail") =>
            (~result.success \/ result.threw)

\* C40: the batch cancel reports overall success only when every non-empty
\* type sub-group was cancelled; when a sub-group fails the batch reports
\* failure, and the core then removes no order of that batch from tracking
\* and adds nothing to cancelCount, not even for the orders of a sub-group
\* that had been cancelled.
C40_BatchAllOrNothing ==
    /\ pc = "rebalance" =>
          \A ans \in CancelAnswers :
              ReportsAllOrNothing(
                  OrderDataOf(trackedMarkets[cursor].orders, ans), ans.res,
                  cancelOrders(OrderDataOf(trackedMarkets[cursor].orders, ans),
                               ans.res))
    /\ log.op = "rebalance" =>
          /\ trackedMarkets[log.m].cancelCount = CountBefore + CountedIn(log.batches)
          /\ \A k \in DOMAIN log.batches :
                /\ log.batches[k].n > 0 => log.batches[k].done = log.batches[k].sent
                /\ log.batches[k].done # log.batches[k].sent =>
                      /\ log.batches[k].n = 0
                      /\ log.batches[k].sent \ RemovedAfter(log.batches, k)
                            \subseteq Hashes(trackedMarkets[log.m].orders)

\* a pass with a batch of which one sub-group was cancelled and another was
\* not: its orders are all still tracked and nothing was counted
C40_Witness ==
    /\ log.op = "rebalance"
    /\ \E k \in DOMAIN log.batches :
          /\ log.batches[k].done # {}
          /\ log.batches[k].done # log.batches[k].sent
          /\ log.batches[k].sent \subseteq Hashes(trackedMarkets[log.m].orders)
    /\ trackedMarkets[log.m].cancelCount = CountBefore

\* ---------------------------------------------------------------- C39
\* market i is in a cooldown that ends within the clock readings of the run
Cooling(i) ==
    /\ i \in DOMAIN trackedMarkets
    /\ trackedMarkets[i].cooldownUntil > 0
    /\ trackedMarkets[i].cooldownUntil <= MaxNow

\* the last step was a pass of market i that found its cooldown expired and
\* cleared it: what the market counts was counted from 0 in this pass, and
\* cooldownUntil is unset unless this pass entered a new cooldown
Returned(i) ==
    /\ PassRan(i)
    /\ log.pre.cooldownUntil > 0
    /\ now >= log.pre.cooldownUntil
    /\ trackedMarkets[i].cancelCount = CountedIn(log.batches)
    /\ \/ trackedMarkets[i].cooldownUntil = 0
       \/ trackedMarkets[i].cancelCount >= CANCEL_LIMIT

\* C39: a market that enters cooldown eventually returns to Active: while the
\* ticks keep running and the clock moves on, a later pass of the market
\* clears cooldownUntil and sets cancelCount to 0, whatever the gateway
\* answered to the cancellations of the cooldown.
C39_CooldownEnds == Cooling(1) ~> Returned(1)

\* a market is Active again, with no counted cancellation, after a cooldown,
\* in a run in which a call had failed
C39_Witness ==
    /\ Returned(1)
    /\ trackedMarkets[1].cooldownUntil = 0
    /\ trackedMarkets[1].cancelCount = 0
    /\ faults > 0

====
